---- MODULE Spec2Model ----
(***************************************************************************)
(* Monster-Shooter-Game, Web Worker variant: the offload coordinator       *)
(* (updateWorkerGame / handleWorkerMessage / applyCollisionResults), the   *)
(* collision worker (self.onmessage / processCollisions) and the entity    *)
(* classes they drive (Player, Monster, Bullet, MonsterSpawner).           *)
(*                                                                         *)
(* Numbers.  JavaScript doubles are modelled as integers in pixels; a      *)
(* division truncates toward zero and Math.sqrt is the integer square      *)
(* root.  NaN is a distinguished value that every arithmetic operator      *)
(* propagates and every comparison rejects, as in IEEE-754.  Times are in  *)
(* milliseconds (deltaTime seconds = dt / 1000).                           *)
(***************************************************************************)
EXTENDS Integers, Sequences, FiniteSets, TLC

VARIABLES
    player,        \* workerGameState.player
    monsters,      \* workerGameState.monsters
    bullets,       \* workerGameState.bullets
    spawner,       \* workerGameState.monsterSpawner
    gs,            \* workerGameState scalars: workerBusy, upgradePoints, ...
    now,           \* the wall clock read by Date.now()
    ticks,         \* number of updateWorkerGame calls so far
    inbox,         \* messages posted to the worker, not yet handled
    outbox,        \* messages posted by the worker, not yet handled by main
    hist           \* history of the last step, for stating properties

vars == <<player, monsters, bullets, spawner, gs, now, ticks,
          inbox, outbox, hist>>

----------------------------------------------------------------------------
(* Bounds of the model *)

MaxTicks == 4
MaxTotal == 3
MaxForeign == 1
MaxSpawnerTicks == 12
MaxSoloTicks == 2

(* Program constants *)

PlayerRadius == 20
PlayerSpeed == 200
PlayerMass == 50
PlayerHealth == 100
PlayerShootInterval == 150
MaxBulletLevel == 5
MonsterShootInterval == 500
MonsterBulletSpeed == 300
MonsterBulletRadius == 4
MonsterBulletPierce == 10
LargeBoundary == 2000
SpawnMargin == 30
SpawnIntervalInit == 50
SpawnIntervalFloor == 50
BatchSizeInit == 50
BatchSizeCeil == 50
MaxOnScreenInit == 500
MaxOnScreenCeil == 300
DifficultyInterval == 1000
TargetSpawnTime == 10000
UpgradeStep == 500
ScorePerHit == 50
MinBufferBytes == 1024
ResultBufferBytes == 1000000
MaxTotalMonsters == 500

(* Environment: the canvas the page gives the game, the frame durations    *)
(* the browser delivers, the keys held, and the outcomes of Math.random()  *)
CanvasW == 200
CanvasH == 200
DtSet == {50, 10000}
SteadyDtSet == {50}
ClockSteps == {1}
Intents == {<<0, 0>>, <<1, 0>>}
NoKeys == {<<0, 0>>}
SpawnSides == {1, 3}
SpawnRadii == {15}
ForeignTypes == {"init", "keydown"}

----------------------------------------------------------------------------
\* const name = v; ...: the rest of a function body with a local bound to a
\* value that is computed once
With(v, F(_)) == F(v)

----------------------------------------------------------------------------
(* IEEE-754 style arithmetic on integers plus NaN *)

NaN == -99999999

IsNaN(a) == a = NaN

Add(a, b) == IF IsNaN(a) \/ IsNaN(b) THEN NaN ELSE a + b
Sub(a, b) == IF IsNaN(a) \/ IsNaN(b) THEN NaN ELSE a - b
Mul(a, b) == IF IsNaN(a) \/ IsNaN(b) THEN NaN ELSE a * b

TruncDiv(a, b) == IF a >= 0 THEN a \div b ELSE -((-a) \div b)

\* a / b.  The only zero divisor the code can meet is a distance of 0,
\* whose numerator (dx or dy) is 0 as well: 0 / 0 is NaN.
Div(a, b) ==
    IF IsNaN(a) \/ IsNaN(b) \/ b = 0 THEN NaN
    ELSE IF b > 0 THEN TruncDiv(a, b) ELSE TruncDiv(-a, -b)

Lt(a, b) == ~IsNaN(a) /\ ~IsNaN(b) /\ a < b
Gt(a, b) == ~IsNaN(a) /\ ~IsNaN(b) /\ a > b
Ge(a, b) == ~IsNaN(a) /\ ~IsNaN(b) /\ a >= b
Le(a, b) == ~IsNaN(a) /\ ~IsNaN(b) /\ a <= b

MathMin(a, b) == IF IsNaN(a) \/ IsNaN(b) THEN NaN ELSE IF a < b THEN a ELSE b
MathMax(a, b) == IF IsNaN(a) \/ IsNaN(b) THEN NaN ELSE IF a > b THEN a ELSE b

\* the largest r with r * r <= n, searched between lo (lo * lo <= n) and hi (hi * hi > n)
RECURSIVE SqrtBetween(_, _, _)
SqrtBetween(n, lo, hi) ==
    IF hi - lo <= 1 THEN lo
    ELSE LET mid == (lo + hi) \div 2
         IN IF mid * mid <= n THEN SqrtBetween(n, mid, hi) ELSE SqrtBetween(n, lo, mid)

MathSqrt(n) == IF IsNaN(n) THEN NaN ELSE SqrtBetween(n, 0, 46341)

\* Math.ceil(num / den) for num >= 0, den > 0
CeilDiv(num, den) == (num + den - 1) \div den

\* the number of float32 values below the first power of two at which they
\* are no longer all the integers: 2^24
Float32Exact == 16777216

\* the spacing of the float32 values around a >= 2^24: the least power of
\* two u with a < u * 2^24
RECURSIVE Float32Ulp(_, _)
Float32Ulp(a, u) == IF a \div u < Float32Exact THEN u ELSE Float32Ulp(a, 2 * u)

\* the float32 nearest to a >= 0, ties to the even mantissa
RoundToFloat32(a) ==
    IF a < Float32Exact THEN a
    ELSE With(Float32Ulp(a, 2), LAMBDA u :
           LET q == a \div u
               r == a % u
               up == 2 * r > u \/ (2 * r = u /\ q % 2 = 1)
           IN IF up THEN (q + 1) * u ELSE q * u)

\* view[i] = v: a Float32Array element holds the float32 nearest to v.  A
\* number stands for a double up to a power-of-two unit, which rounding to
\* float32 does not depend on: an integer below 2^24 is stored as it is,
\* a number with more than 24 significant bits is not
Fround(v) ==
    IF IsNaN(v) THEN NaN
    ELSE IF v < 0 THEN -RoundToFloat32(-v) ELSE RoundToFloat32(v)

Hypot(dx, dy) == MathSqrt(Add(Mul(dx, dx), Mul(dy, dy)))

----------------------------------------------------------------------------
(* Identifiers.  The main context names an entity                           *)
(* `monster-${index}-${Date.now()}` / `bullet-${index}-${Date.now()}`; the  *)
(* worker and deserializeResults name it `monster-${i}` / `bullet-${i}`.    *)

NoId == <<>>
MainId(kind, index, stamp) == <<kind, index, stamp>>
WireId(kind, index) == <<kind, index>>

----------------------------------------------------------------------------
(* Float32Array views.  A buffer is the sequence of values written to it   *)
(* and its capacity in floats; unwritten elements read 0, elements beyond  *)
(* the capacity read undefined (NaN once used as a number), and a write    *)
(* beyond the capacity is dropped.                                         *)

MkBuffer(values, capacity) ==
    [data |-> [i \in 1..(IF Len(values) < capacity THEN Len(values) ELSE capacity) |->
                 Fround(values[i])],
     cap |-> capacity]

\* view[offset], offset counted from 0
ViewAt(buf, offset) ==
    IF offset < Len(buf.data) THEN buf.data[offset + 1]
    ELSE IF offset < buf.cap THEN 0
    ELSE NaN

----------------------------------------------------------------------------
(* Collision worker *)

circlesCollide(circle1, circle2) ==
    LET dx == Sub(circle1.x, circle2.x)
        dy == Sub(circle1.y, circle2.y)
        distance == Hypot(dx, dy)
    IN Lt(distance, Add(circle1.radius, circle2.radius))

\* circle?.mass || 1
MassOr1(circle) == IF IsNaN(circle.mass) \/ circle.mass = 0 THEN 1 ELSE circle.mass

\* returns the two circles after the call
resolveCollision(circle1, circle2) ==
    With(Hypot(Sub(circle2.x, circle1.x), Sub(circle2.y, circle1.y)), LAMBDA distance :
    LET dx == Sub(circle2.x, circle1.x)
        dy == Sub(circle2.y, circle1.y)
        radiusSum == Add(circle1.radius, circle2.radius)
        mass1 == MassOr1(circle1)
        mass2 == MassOr1(circle2)
        totalMass == mass1 + mass2
        \* direction * move = (d / distance) * (mass / totalMass) * (radiusSum - distance) / 2
        Shift(d, mass) ==
            Div(Mul(Mul(d, mass), Sub(radiusSum, distance)),
                Mul(Mul(distance, totalMass), 2))
    IN IF Ge(distance, radiusSum) THEN <<circle1, circle2>>
       ELSE << [circle1 EXCEPT !.x = Sub(circle1.x, Shift(dx, mass2)),
                               !.y = Sub(circle1.y, Shift(dy, mass2))],
               [circle2 EXCEPT !.x = Add(circle2.x, Shift(dx, mass1)),
                               !.y = Add(circle2.y, Shift(dy, mass1))] >>)

\* workingMonsters.forEach(monster => { if (circlesCollide(player, monster))
\*     resolveCollision(results.player, monster); })
\* acc = <<results.player, workingMonsters>>
RECURSIVE PlayerMonsterPass(_, _, _)
PlayerMonsterPass(origPlayer, acc, i) ==
    IF i > Len(acc[2]) THEN acc
    ELSE IF circlesCollide(origPlayer, acc[2][i])
         THEN With(resolveCollision(acc[1], acc[2][i]), LAMBDA r :
                PlayerMonsterPass(origPlayer, <<r[1], [acc[2] EXCEPT ![i] = r[2]]>>, i + 1))
         ELSE PlayerMonsterPass(origPlayer, acc, i + 1)

\* for (i ...) for (j = i + 1 ...) if (circlesCollide(ms[i], ms[j])) resolveCollision(ms[i], ms[j])
RECURSIVE MonsterMonsterPass(_, _, _)
MonsterMonsterPass(ms, i, j) ==
    IF i > Len(ms) THEN ms
    ELSE IF j > Len(ms) THEN MonsterMonsterPass(ms, i + 1, i + 2)
    ELSE IF circlesCollide(ms[i], ms[j])
         THEN With(resolveCollision(ms[i], ms[j]), LAMBDA r :
                MonsterMonsterPass([ms EXCEPT ![i] = r[1], ![j] = r[2]], i, j + 1))
         ELSE MonsterMonsterPass(ms, i, j + 1)

\* bullet.currentPierceCount || 0
PierceOr0(c) == IF IsNaN(c) THEN 0 ELSE c

\* results.monsters.find(m => m.id === monster.id): the first index with that id
FirstWithId(seq, id) ==
    IF \E k \in 1..Len(seq) : seq[k].id = id
    THEN CHOOSE k \in 1..Len(seq) : seq[k].id = id /\ \A l \in 1..(k - 1) : seq[l].id # id
    ELSE 0

\* the inner workingMonsters.forEach of the bullet-monster pass, for one bullet
\* st = [bullet, updated, score, resMonsters, resBullets]
RECURSIVE BulletVsMonsters(_, _, _)
BulletVsMonsters(st, workingMonsters, k) ==
    IF k > Len(workingMonsters) THEN st
    ELSE LET monster == workingMonsters[k]
             b1 == [st.bullet EXCEPT !.currentPierceCount = PierceOr0(@) + 1]
             b2 == IF Gt(b1.currentPierceCount, b1.maxPierceCount)
                   THEN [b1 EXCEPT !.isActive = FALSE] ELSE b1
             f == FirstWithId(st.resMonsters, monster.id)
             hit == [bullet |-> b2,
                     updated |-> TRUE,
                     score |-> IF b1.isPlayerBullet THEN st.score + ScorePerHit ELSE st.score,
                     resMonsters |-> IF f = 0 THEN st.resMonsters
                                     ELSE [st.resMonsters EXCEPT ![f].flash = TRUE],
                     resBullets |-> IF st.updated THEN st.resBullets
                                    ELSE Append(st.resBullets, b2)]
         IN IF circlesCollide(st.bullet, monster)
            THEN BulletVsMonsters(hit, workingMonsters, k + 1)
            ELSE BulletVsMonsters(st, workingMonsters, k + 1)

\* bullets.forEach(bullet => { let bulletUpdated = false; ... })
\* acc = [bullets, score, resMonsters, resBullets]
RECURSIVE BulletMonsterPass(_, _, _)
BulletMonsterPass(acc, workingMonsters, i) ==
    IF i > Len(acc.bullets) THEN acc
    ELSE With(BulletVsMonsters([bullet |-> acc.bullets[i], updated |-> FALSE,
                                score |-> acc.score,
                                resMonsters |-> acc.resMonsters,
                                resBullets |-> acc.resBullets],
                               workingMonsters, 1), LAMBDA st :
           BulletMonsterPass([bullets |-> [acc.bullets EXCEPT ![i] = st.bullet],
                              score |-> st.score,
                              resMonsters |-> st.resMonsters,
                              resBullets |-> st.resBullets],
                             workingMonsters, i + 1))

\* a pass that stops every bullet on the player, the player's own too
RECURSIVE BulletPlayerPass_AnyOwner(_, _, _, _)
BulletPlayerPass_AnyOwner(bs, origPlayer, resBullets, i) ==
    IF i > Len(bs) THEN resBullets
    ELSE IF circlesCollide(bs[i], origPlayer)
         THEN BulletPlayerPass_AnyOwner(bs, origPlayer,
                               Append(resBullets, [bs[i] EXCEPT !.isActive = FALSE]), i + 1)
         ELSE BulletPlayerPass_AnyOwner(bs, origPlayer, resBullets, i + 1)

\* bullets.forEach(bullet => { if (!bullet.isPlayerBullet && circlesCollide(bullet, player)) ... })
RECURSIVE BulletPlayerPass(_, _, _, _)
BulletPlayerPass(bs, origPlayer, resBullets, i) ==
    IF i > Len(bs) THEN resBullets
    ELSE IF ~bs[i].isPlayerBullet /\ circlesCollide(bs[i], origPlayer)
         THEN BulletPlayerPass(bs, origPlayer,
                               Append(resBullets, [bs[i] EXCEPT !.isActive = FALSE]), i + 1)
         ELSE BulletPlayerPass(bs, origPlayer, resBullets, i + 1)

processCollisions(data) ==
    With(PlayerMonsterPass(data.player, <<data.player, data.monsters>>, 1), LAMBDA pm :
    With(MonsterMonsterPass(pm[2], 1, 2), LAMBDA workingMonsters :
    With(BulletMonsterPass([bullets |-> data.bullets, score |-> 0,
                            resMonsters |-> workingMonsters,
                            resBullets |-> <<>>],
                           workingMonsters, 1), LAMBDA bm :
      [player |-> pm[1],
       monsters |-> bm.resMonsters,
       bullets |-> BulletPlayerPass(bm.bullets, data.player, bm.resBullets, 1),
       score |-> bm.score])))


----------------------------------------------------------------------------
(* Collision worker with the spatial grid: circlesCollide, resolveCollision *)

\* distanceSquared < radiusSum * radiusSum
circlesCollideP000(circle1, circle2) ==
    LET dx == Sub(circle1.x, circle2.x)
        dy == Sub(circle1.y, circle2.y)
        radiusSum == Add(circle1.radius, circle2.radius)
    IN Lt(Add(Mul(dx, dx), Mul(dy, dy)), Mul(radiusSum, radiusSum))

\* Math.cos(angle) * radius * 0.1, the cosine (or sine) being num / angle.den
NudgeBy(num, angle, radius) == Div(Mul(num, radius), Mul(angle.den, 10))

\* a nudge that takes both circles the same way
Nudge_SameWay(circle1, circle2, angle) ==
    << [circle1 EXCEPT !.x = Add(@, NudgeBy(angle.cos, angle, circle1.radius)),
                       !.y = Add(@, NudgeBy(angle.sin, angle, circle1.radius))],
       [circle2 EXCEPT !.x = Add(@, NudgeBy(angle.cos, angle, circle2.radius)),
                       !.y = Add(@, NudgeBy(angle.sin, angle, circle2.radius))] >>

\* if (distance === 0) { const angle = Math.random() * Math.PI * 2; ...; return; }
\* angle = [cos, sin, den]: the direction (cos / den, sin / den)
Nudge(circle1, circle2, angle) ==
    << [circle1 EXCEPT !.x = Sub(@, NudgeBy(angle.cos, angle, circle1.radius)),
                       !.y = Sub(@, NudgeBy(angle.sin, angle, circle1.radius))],
       [circle2 EXCEPT !.x = Add(@, NudgeBy(angle.cos, angle, circle2.radius)),
                       !.y = Add(@, NudgeBy(angle.sin, angle, circle2.radius))] >>

\* a separation in which each circle moves by its own share of the mass
resolveCollisionP000_OwnShare(circle1, circle2, angle) ==
    With(Hypot(Sub(circle2.x, circle1.x), Sub(circle2.y, circle1.y)), LAMBDA distance :
    LET dx == Sub(circle2.x, circle1.x)
        dy == Sub(circle2.y, circle1.y)
        radiusSum == Add(circle1.radius, circle2.radius)
        mass1 == MassOr1(circle1)
        mass2 == MassOr1(circle2)
        totalMass == mass1 + mass2
        Shift(d, mass) ==
            Div(Mul(Mul(d, mass), Sub(radiusSum, distance)),
                Mul(Mul(distance, totalMass), 2))
    IN IF Ge(Add(Mul(dx, dx), Mul(dy, dy)), Mul(radiusSum, radiusSum)) THEN <<circle1, circle2>>
       ELSE IF distance = 0 THEN Nudge(circle1, circle2, angle)
       ELSE << [circle1 EXCEPT !.x = Sub(circle1.x, Shift(dx, mass1)),
                               !.y = Sub(circle1.y, Shift(dy, mass1))],
               [circle2 EXCEPT !.x = Add(circle2.x, Shift(dx, mass2)),
                               !.y = Add(circle2.y, Shift(dy, mass2))] >>)

\* resolveCollision(circle1, circle2) of the grid worker; angle is what
\* Math.random() gives when the centres coincide.  Returns the two circles
\* after the call
resolveCollisionP000(circle1, circle2, angle) ==
    With(Hypot(Sub(circle2.x, circle1.x), Sub(circle2.y, circle1.y)), LAMBDA distance :
    LET dx == Sub(circle2.x, circle1.x)
        dy == Sub(circle2.y, circle1.y)
        radiusSum == Add(circle1.radius, circle2.radius)
        mass1 == MassOr1(circle1)
        mass2 == MassOr1(circle2)
        totalMass == mass1 + mass2
        \* direction * move = (d / distance) * (mass / totalMass) * (radiusSum - distance) / 2
        Shift(d, mass) ==
            Div(Mul(Mul(d, mass), Sub(radiusSum, distance)),
                Mul(Mul(distance, totalMass), 2))
    IN IF Ge(Add(Mul(dx, dx), Mul(dy, dy)), Mul(radiusSum, radiusSum)) THEN <<circle1, circle2>>
       ELSE IF distance = 0 THEN Nudge(circle1, circle2, angle)
       ELSE << [circle1 EXCEPT !.x = Sub(circle1.x, Shift(dx, mass2)),
                               !.y = Sub(circle1.y, Shift(dy, mass2))],
               [circle2 EXCEPT !.x = Add(circle2.x, Shift(dx, mass1)),
                               !.y = Add(circle2.y, Shift(dy, mass1))] >>)

\* resolveCollision takes the branch that calls Math.random()
TakesNudge(circle1, circle2) ==
    /\ circlesCollideP000(circle1, circle2)
    /\ circle1.x = circle2.x
    /\ circle1.y = circle2.y

\* the outcome of the n-th call of Math.random() in one processCollisions
\* call, n counted from 0; rnd is the sequence of the outcomes
AngleAt(rnd, n) == rnd[(n % Len(rnd)) + 1]

\* workingMonsters.forEach(monster => { if (circlesCollide(player, monster))
\*     resolveCollision(results.player, monster); })
\* acc = <<results.player, workingMonsters, calls of Math.random()>>
RECURSIVE PlayerMonsterPassP000(_, _, _, _)
PlayerMonsterPassP000(origPlayer, acc, rnd, i) ==
    IF i > Len(acc[2]) THEN acc
    ELSE IF circlesCollideP000(origPlayer, acc[2][i])
         THEN With(resolveCollisionP000(acc[1], acc[2][i], AngleAt(rnd, acc[3])), LAMBDA r :
                PlayerMonsterPassP000(origPlayer,
                    <<r[1], [acc[2] EXCEPT ![i] = r[2]],
                      IF TakesNudge(acc[1], acc[2][i]) THEN acc[3] + 1 ELSE acc[3]>>,
                    rnd, i + 1))
         ELSE PlayerMonsterPassP000(origPlayer, acc, rnd, i + 1)

GridSize == 50

\* Math.floor(v / gridSize)
CellOf(v) == IF IsNaN(v) THEN NaN ELSE v \div GridSize

\* a monster entered under the cell of its centre only
CellKeys_CentreOnly(monster) == <<<<CellOf(monster.x), CellOf(monster.y)>>>>

\* the cell keys a monster is entered under, in the order of the code: its
\* own cell, then left, right, above, below, and the four diagonal ones.
\* A key `${cellX},${cellY}` is the pair <<cellX, cellY>>
CellKeys(monster) ==
    LET cellX == CellOf(monster.x)
        cellY == CellOf(monster.y)
        radius == monster.radius
        left == Lt(Sub(monster.x, radius), Mul(cellX, GridSize))
        right == Ge(Add(monster.x, radius), Mul(Add(cellX, 1), GridSize))
        above == Lt(Sub(monster.y, radius), Mul(cellY, GridSize))
        below == Ge(Add(monster.y, radius), Mul(Add(cellY, 1), GridSize))
        If(c, key) == IF c THEN <<key>> ELSE <<>>
    IN <<<<cellX, cellY>>>>
       \o If(left, <<Sub(cellX, 1), cellY>>)
       \o If(right, <<Add(cellX, 1), cellY>>)
       \o If(above, <<cellX, Sub(cellY, 1)>>)
       \o If(below, <<cellX, Add(cellY, 1)>>)
       \o If(left /\ above, <<Sub(cellX, 1), Sub(cellY, 1)>>)
       \o If(left /\ below, <<Sub(cellX, 1), Add(cellY, 1)>>)
       \o If(right /\ above, <<Add(cellX, 1), Sub(cellY, 1)>>)
       \o If(right /\ below, <<Add(cellX, 1), Add(cellY, 1)>>)

\* if (!grid.has(key)) grid.set(key, []); grid.get(key).push(index)
\* The Map is the sequence of its entries [key, indices] in insertion order
GridPush(grid, key, index) ==
    IF \E c \in 1..Len(grid) : grid[c].key = key
    THEN [c \in 1..Len(grid) |->
            IF grid[c].key = key THEN [grid[c] EXCEPT !.indices = Append(@, index)]
            ELSE grid[c]]
    ELSE Append(grid, [key |-> key, indices |-> <<index>>])

RECURSIVE GridPushAll(_, _, _, _)
GridPushAll(grid, keys, index, k) ==
    IF k > Len(keys) THEN grid
    ELSE GridPushAll(GridPush(grid, keys[k], index), keys, index, k + 1)

\* workingMonsters.forEach((monster, index) => { ... }): the grid
RECURSIVE BuildGrid(_, _, _)
BuildGrid(grid, workingMonsters, i) ==
    IF i > Len(workingMonsters) THEN grid
    ELSE BuildGrid(GridPushAll(grid, CellKeys(workingMonsters[i]), i, 1), workingMonsters, i + 1)

\* pairId: the smaller index first
PairId(index1, index2) == IF index1 < index2 THEN <<index1, index2>> ELSE <<index2, index1>>

\* the two loops over one cell's monsterIndices
\* a cell pass that does not look at checkedPairs
RECURSIVE GridCellPass_EveryCell(_, _, _, _, _)
GridCellPass_EveryCell(acc, monsterIndices, rnd, i, j) ==
    IF i > Len(monsterIndices) THEN acc
    ELSE IF j > Len(monsterIndices)
         THEN GridCellPass_EveryCell(acc, monsterIndices, rnd, i + 1, i + 2)
    ELSE LET pairId == PairId(monsterIndices[i], monsterIndices[j])
             monster1 == acc.monsters[monsterIndices[i]]
             monster2 == acc.monsters[monsterIndices[j]]
             hit == circlesCollideP000(monster1, monster2)
             r == resolveCollisionP000(monster1, monster2, AngleAt(rnd, acc.nudges))
         IN GridCellPass_EveryCell(
              [monsters |-> IF hit
                            THEN [acc.monsters EXCEPT ![monsterIndices[i]] = r[1],
                                                      ![monsterIndices[j]] = r[2]]
                            ELSE acc.monsters,
               checkedPairs |-> acc.checkedPairs \cup {pairId},
               nudges |-> IF TakesNudge(monster1, monster2) THEN acc.nudges + 1
                          ELSE acc.nudges,
               tests |-> Append(acc.tests, pairId)],
              monsterIndices, rnd, i, j + 1)

\* acc = [monsters, checkedPairs, nudges, tests]; tests counts the calls of
\* circlesCollide for each pair
RECURSIVE GridCellPass(_, _, _, _, _)
GridCellPass(acc, monsterIndices, rnd, i, j) ==
    IF i > Len(monsterIndices) THEN acc
    ELSE IF j > Len(monsterIndices) THEN GridCellPass(acc, monsterIndices, rnd, i + 1, i + 2)
    ELSE With(PairId(monsterIndices[i], monsterIndices[j]), LAMBDA pairId :
         IF pairId \in acc.checkedPairs
         THEN GridCellPass(acc, monsterIndices, rnd, i, j + 1)
         ELSE LET monster1 == acc.monsters[monsterIndices[i]]
                  monster2 == acc.monsters[monsterIndices[j]]
                  hit == circlesCollideP000(monster1, monster2)
                  r == resolveCollisionP000(monster1, monster2, AngleAt(rnd, acc.nudges))
              IN GridCellPass(
                   [monsters |-> IF hit
                                 THEN [acc.monsters EXCEPT ![monsterIndices[i]] = r[1],
                                                           ![monsterIndices[j]] = r[2]]
                                 ELSE acc.monsters,
                    checkedPairs |-> acc.checkedPairs \cup {pairId},
                    nudges |-> IF TakesNudge(monster1, monster2) THEN acc.nudges + 1
                               ELSE acc.nudges,
                    tests |-> Append(acc.tests, pairId)],
                   monsterIndices, rnd, i, j + 1))

\* grid.forEach((monsterIndices) => { ... })
RECURSIVE GridPass(_, _, _, _)
GridPass(acc, grid, rnd, c) ==
    IF c > Len(grid) THEN acc
    ELSE GridPass(GridCellPass(acc, grid[c].indices, rnd, 1, 2), grid, rnd, c + 1)

\* workingMonsters.forEach(monster => { results.monsters.push({ ...monster, color: '#FFFFFF' }); })
\* flash, not yet set, reads as false
ResultMonsters(workingMonsters) ==
    [i \in 1..Len(workingMonsters) |->
       [x |-> workingMonsters[i].x, y |-> workingMonsters[i].y,
        radius |-> workingMonsters[i].radius, mass |-> workingMonsters[i].mass,
        id |-> workingMonsters[i].id, flash |-> FALSE]]

\* processCollisions(data) of the grid worker; rnd is the sequence of
\* directions Math.random() gives.  The bullet loops are those of the worker
\* without the grid, word for word, and circlesCollide decides as the one
\* with the square root does.  built is workingMonsters as the grid is
\* built from it, grid and tests are what the monster pass built and
\* tested, nudges is the number of calls of Math.random()
processCollisionsP000(data, rnd) ==
    With(PlayerMonsterPassP000(data.player, <<data.player, data.monsters, 0>>, rnd, 1), LAMBDA pm :
    With(BuildGrid(<<>>, pm[2], 1), LAMBDA grid :
    With(GridPass([monsters |-> pm[2], checkedPairs |-> {}, nudges |-> pm[3], tests |-> <<>>],
                  grid, rnd, 1), LAMBDA gp :
    With(BulletMonsterPass([bullets |-> data.bullets, score |-> 0,
                            resMonsters |-> ResultMonsters(gp.monsters),
                            resBullets |-> <<>>],
                           gp.monsters, 1), LAMBDA bm :
      [player |-> pm[1],
       monsters |-> bm.resMonsters,
       bullets |-> BulletPlayerPass(bm.bullets, data.player, bm.resBullets, 1),
       score |-> bm.score,
       built |-> pm[2],
       nudges |-> gp.nudges,
       grid |-> grid,
       tests |-> gp.tests]))))

----------------------------------------------------------------------------
(* Wire formats of the worker (deserializeGameData, serializeResults) *)

\* the i-th monster record of a request, i counted from 0
DecodeMonster(view, i) ==
    [x |-> ViewAt(view, 4 + 3 * i),
     y |-> ViewAt(view, 4 + 3 * i + 1),
     radius |-> ViewAt(view, 4 + 3 * i + 2),
     mass |-> 1,
     id |-> WireId("monster", i),
     flash |-> FALSE]

\* the i-th bullet record of a request that holds n monster records
DecodeBullet(view, n, i) ==
    LET base == 4 + 3 * n + 1 + 6 * i
    IN [x |-> ViewAt(view, base),
        y |-> ViewAt(view, base + 1),
        radius |-> ViewAt(view, base + 2),
        isPlayerBullet |-> Gt(ViewAt(view, base + 3), 0),
        currentPierceCount |-> ViewAt(view, base + 4),
        maxPierceCount |-> ViewAt(view, base + 5),
        id |-> WireId("bullet", i),
        isActive |-> TRUE]

\* for (let i = 0; i < count; i++): no iteration when count is NaN
LoopCount(count) == IF IsNaN(count) \/ count < 0 THEN 0 ELSE count

deserializeGameData(view) ==
    LET monsterCount == LoopCount(ViewAt(view, 3))
        bulletCount == LoopCount(ViewAt(view, 4 + 3 * monsterCount))
    IN [player |-> [x |-> ViewAt(view, 0), y |-> ViewAt(view, 1),
                    radius |-> ViewAt(view, 2), mass |-> 1, id |-> <<"player">>],
        monsters |-> [i \in 1..monsterCount |-> DecodeMonster(view, i - 1)],
        bullets |-> [i \in 1..bulletCount |-> DecodeBullet(view, monsterCount, i - 1)]]

\* deserializeGameData(view) of the worker that reads mass, damage and
\* isActive from the wire (4 floats per monster, 8 per bullet)
deserializeGameDataP000(view) ==
    LET monsterCount == LoopCount(ViewAt(view, 4))
        base == 5 + 4 * monsterCount
        bulletCount == LoopCount(ViewAt(view, base))
    IN [player |-> [x |-> ViewAt(view, 0), y |-> ViewAt(view, 1),
                    radius |-> ViewAt(view, 2), mass |-> ViewAt(view, 3),
                    id |-> <<"player">>],
        monsters |-> [i \in 1..monsterCount |->
                        [x |-> ViewAt(view, 5 + 4 * (i - 1)),
                         y |-> ViewAt(view, 5 + 4 * (i - 1) + 1),
                         radius |-> ViewAt(view, 5 + 4 * (i - 1) + 2),
                         mass |-> ViewAt(view, 5 + 4 * (i - 1) + 3),
                         id |-> WireId("monster", i - 1)]],
        bullets |-> [i \in 1..bulletCount |->
                       LET b == base + 1 + 8 * (i - 1)
                       IN [x |-> ViewAt(view, b),
                           y |-> ViewAt(view, b + 1),
                           radius |-> ViewAt(view, b + 2),
                           isPlayerBullet |-> Gt(ViewAt(view, b + 3), 0),
                           damage |-> ViewAt(view, b + 4),
                           currentPierceCount |-> ViewAt(view, b + 5),
                           maxPierceCount |-> ViewAt(view, b + 6),
                           id |-> WireId("bullet", i - 1),
                           isActive |-> Gt(ViewAt(view, b + 7), 0)]]]

RECURSIVE Flatten(_)
Flatten(seqs) == IF seqs = <<>> THEN <<>> ELSE Head(seqs) \o Flatten(Tail(seqs))

BoolToFloat(b) == IF b THEN 1 ELSE 0

\* the floats of one bullet record without the damage field
BulletFloats_NoDamage(b) ==
    <<b.x, b.y, b.radius, BoolToFloat(b.isPlayerBullet),
      b.currentPierceCount, b.maxPierceCount, BoolToFloat(b.isActive)>>

\* bullets.forEach(bullet => { view[offset++] = bullet.x; ... }) of serializeGameData
BulletFloats(b) ==
    <<b.x, b.y, b.radius, BoolToFloat(b.isPlayerBullet), b.damage,
      b.currentPierceCount, b.maxPierceCount, BoolToFloat(b.isActive)>>

\* serializeGameData(data): the request buffer of the coordinator that sends
\* mass, damage and isActive
serializeGameData(data) ==
    LET bufferSize == 4 + (1 + Len(data.monsters) * 4) + (1 + Len(data.bullets) * 8)
        values ==
          <<data.player.x, data.player.y, data.player.radius, MassOr1(data.player),
            Len(data.monsters)>>
          \o Flatten([i \in 1..Len(data.monsters) |->
                       <<data.monsters[i].x, data.monsters[i].y,
                         data.monsters[i].radius, MassOr1(data.monsters[i])>>])
          \o <<Len(data.bullets)>>
          \o Flatten([i \in 1..Len(data.bullets) |-> BulletFloats(data.bullets[i])])
    IN MkBuffer(values, bufferSize)

\* serializeResults(results) of the grid worker: a buffer of exactly the
\* size of what is written
serializeResultsP000(results) ==
    LET values ==
          <<results.player.x, results.player.y, results.player.radius,
            MassOr1(results.player), PierceOr0(results.score), Len(results.monsters)>>
          \o Flatten([i \in 1..Len(results.monsters) |->
                       <<results.monsters[i].x, results.monsters[i].y,
                         results.monsters[i].radius, MassOr1(results.monsters[i]),
                         BoolToFloat(results.monsters[i].flash)>>])
          \o <<Len(results.bullets)>>
          \o Flatten([i \in 1..Len(results.bullets) |->
                       <<i - 1, BoolToFloat(results.bullets[i].isActive),
                         results.bullets[i].currentPierceCount>>])
    IN MkBuffer(values, Len(values))

\* the values serializeResults writes, in order (results.score || 0)
serializeResults(results) ==
    <<results.player.x, results.player.y, PierceOr0(results.score), Len(results.monsters)>>
    \o Flatten([i \in 1..Len(results.monsters) |->
                 <<results.monsters[i].x, results.monsters[i].y,
                   BoolToFloat(results.monsters[i].flash)>>])
    \o <<Len(results.bullets)>>
    \o Flatten([i \in 1..Len(results.bullets) |->
                 <<i - 1, BoolToFloat(results.bullets[i].isActive),
                   PierceOr0(results.bullets[i].currentPierceCount)>>])

----------------------------------------------------------------------------
(* Messages *)

NoMsg == [type |-> "none"]

RequestMsg(buffer, size, ghost) ==
    [type |-> "processCollisions", buffer |-> buffer, bufferSize |-> size, ghost |-> ghost]

\* a reply posted under a type the main context has no case for
ResultsMsg_Mistyped(buffer, size, ghost) ==
    [type |-> "collisionResult", buffer |-> buffer, bufferSize |-> size, ghost |-> ghost]

ResultsMsg(buffer, size, ghost) ==
    [type |-> "collisionResults", buffer |-> buffer, bufferSize |-> size, ghost |-> ghost]

ErrorMsg(text) == [type |-> "error", error |-> text]

ForeignMsg(type) == [type |-> type]

\* an error text built from the event, which has no type, not from its data
UnknownTypeText_OfEvent(type) == <<"Unknown message type: ", "undefined">>

\* `Unknown message type: ${message.type}`
UnknownTypeText(type) == <<"Unknown message type: ", type>>

\* self.onmessage: the reply posted for a message
\* a worker that keeps a running score from one request to the next
onmessageP000_RunningScore(message, rnd) ==
    IF message.type = "processCollisions"
    THEN With(processCollisionsP000(deserializeGameDataP000(message.buffer), rnd), LAMBDA results :
         With(serializeResultsP000([results EXCEPT !.score = @ + ScorePerHit * Len(outbox)]),
              LAMBDA buffer :
           [type |-> "collisionResults", buffer |-> buffer, bufferSize |-> Len(buffer.data)]))
    ELSE ErrorMsg(UnknownTypeText(message.type))

\* self.onmessage of the grid worker; a request carries its snapshot in
\* message.buffer.  rnd is the sequence of directions Math.random() gives
onmessageP000(message, rnd) ==
    IF message.type = "processCollisions"
    THEN With(processCollisionsP000(deserializeGameDataP000(message.buffer), rnd), LAMBDA results :
         With(serializeResultsP000(results), LAMBDA buffer :
           [type |-> "collisionResults", buffer |-> buffer, bufferSize |-> Len(buffer.data)]))
    ELSE ErrorMsg(UnknownTypeText(message.type))

onmessage(message) ==
    IF message.type = "processCollisions"
    THEN With(deserializeGameData(message.buffer), LAMBDA data :
         With(processCollisions(data), LAMBDA results :
         With(serializeResults(results), LAMBDA values :
           ResultsMsg(MkBuffer(values, ResultBufferBytes \div 4), Len(values),
                      [message.ghost EXCEPT
                         !.order = [i \in 1..Len(results.monsters) |->
                                      results.monsters[i].id[2]],
                         !.touched = [i \in 1..Len(results.bullets) |->
                                        results.bullets[i].id[2]]]))))
    ELSE ErrorMsg(UnknownTypeText(message.type))


----------------------------------------------------------------------------
(* Entities of the main context *)

\* Math.atan2(dy, dx) kept as the unit vector <<cos, sin>> in thousandths;
\* atan2(0, 0) is 0
Atan2(dy, dx) ==
    With(Hypot(dx, dy), LAMBDA d :
      IF IsNaN(d) THEN <<NaN, NaN>>
      ELSE IF d = 0 THEN <<1000, 0>>
      ELSE <<Div(Mul(dx, 1000), d), Div(Mul(dy, 1000), d)>>)

\* new Bullet(x, y, angle, speed, damage, radius, color, isPlayerBullet, pierceCount)
Bullet(x, y, angle, speed, damage, radius, isPlayerBullet, pierceCount) ==
    [id |-> NoId, uid |-> 0,
     x |-> x, y |-> y,
     vx |-> Div(Mul(angle[1], speed), 1000),
     vy |-> Div(Mul(angle[2], speed), 1000),
     radius |-> radius, damage |-> damage,
     isPlayerBullet |-> isPlayerBullet, isActive |-> TRUE,
     maxPierceCount |-> pierceCount, currentPierceCount |-> 0]

\* bulletProps[level] || bulletProps[1]
createPlayerBullet(x, y, angle, level) ==
    LET l == IF level \in 1..5 THEN level ELSE 1
    IN Bullet(x, y, angle, 700 + 50 * (l - 1), 30 + 10 * (l - 1), 6 + (l - 1),
              TRUE, 10 + 5 * (l - 1))

createMonsterBullet(x, y, angle) ==
    Bullet(x, y, angle, MonsterBulletSpeed, 5, MonsterBulletRadius, FALSE, MonsterBulletPierce)

\* an update that tests the canvas widened by the radius
Bullet_update_CanvasBounds(b, dt) ==
    LET x1 == Add(b.x, Div(Mul(b.vx, dt), 1000))
        y1 == Add(b.y, Div(Mul(b.vy, dt), 1000))
        out == \/ Lt(x1, -b.radius) \/ Gt(x1, CanvasW + b.radius)
               \/ Lt(y1, -b.radius) \/ Gt(y1, CanvasH + b.radius)
    IN [b EXCEPT !.x = x1, !.y = y1, !.isActive = IF out THEN FALSE ELSE @]

\* Bullet.update(deltaTime) of a bullet created without a canvas
Bullet_update(b, dt) ==
    LET x1 == Add(b.x, Div(Mul(b.vx, dt), 1000))
        y1 == Add(b.y, Div(Mul(b.vy, dt), 1000))
        out == \/ Lt(x1, -b.radius - LargeBoundary) \/ Gt(x1, LargeBoundary + b.radius)
               \/ Lt(y1, -b.radius - LargeBoundary) \/ Gt(y1, LargeBoundary + b.radius)
    IN [b EXCEPT !.x = x1, !.y = y1, !.isActive = IF out THEN FALSE ELSE @]

\* new Player(x, y)
Player(x, y) ==
    [x |-> x, y |-> y, radius |-> PlayerRadius, speed |-> PlayerSpeed,
     health |-> PlayerHealth, bulletLevel |-> 1, score |-> 0, shootCooldown |-> 0,
     isActive |-> TRUE, mass |-> PlayerMass, aimAngle |-> <<1000, 0>>]

\* a takeDamage that costs health and ends the player at 0
Player_takeDamage_Hurts(p) ==
    [p EXCEPT !.health = @ - 50, !.isActive = p.health - 50 > 0]

\* Player.takeDamage(): flashEffect() only, which changes the colour drawn
Player_takeDamage(p) == p

\* squared distance: orders points exactly as Math.sqrt of it does
DistSq(ax, ay, bx, by) ==
    Add(Mul(Sub(ax, bx), Sub(ax, bx)), Mul(Sub(ay, by), Sub(ay, by)))

\* for (const monster of monsters) { if (monster.isActive) { ... if (distance < nearestDistance) ... } }
\* returns the index of the nearest active monster, 0 if there is none
RECURSIVE NearestMonster(_, _, _, _, _)
NearestMonster(px, py, ms, i, best) ==
    IF i > Len(ms) THEN best
    ELSE LET d == DistSq(ms[i].x, ms[i].y, px, py)
             better == /\ ms[i].isActive
                       /\ ~IsNaN(d)
                       /\ (best = 0 \/ d < DistSq(ms[best].x, ms[best].y, px, py))
         IN NearestMonster(px, py, ms, i + 1, IF better THEN i ELSE best)

\* Player.update(deltaTime, monsters, bullets); intent = <<dx, dy>> from the move flags
Player_update(p, dt, intent, ms, bs) ==
    IF ~p.isActive THEN [player |-> p, bullets |-> bs]
    ELSE
    LET diagonal == intent[1] # 0 /\ intent[2] # 0
        stepX == IF diagonal THEN Div(intent[1] * p.speed * dt, 1414)
                 ELSE Div(intent[1] * p.speed * dt, 1000)
        stepY == IF diagonal THEN Div(intent[2] * p.speed * dt, 1414)
                 ELSE Div(intent[2] * p.speed * dt, 1000)
        x1 == MathMax(p.radius, MathMin(CanvasW - p.radius, Add(p.x, stepX)))
        y1 == MathMax(p.radius, MathMin(CanvasH - p.radius, Add(p.y, stepY)))
        cd == p.shootCooldown - dt
    IN With(NearestMonster(x1, y1, ms, 1, 0), LAMBDA n :
       With(IF n = 0 THEN p.aimAngle ELSE Atan2(Sub(ms[n].y, y1), Sub(ms[n].x, x1)), LAMBDA aim :
       LET fire == cd <= 0 /\ n # 0
       IN [player |-> [p EXCEPT !.x = x1, !.y = y1, !.aimAngle = aim,
                                !.shootCooldown = IF fire THEN PlayerShootInterval ELSE cd],
           bullets |-> IF fire THEN Append(bs, createPlayerBullet(x1, y1, aim, p.bulletLevel))
                       ELSE bs]))

\* new Monster(x, y, radius, health, speed, color)
Monster(x, y, radius, health, speed) ==
    [id |-> NoId, uid |-> 0, x |-> x, y |-> y, radius |-> radius,
     health |-> health, speed |-> speed, isActive |-> TRUE,
     shootCooldown |-> 0, mass |-> radius * 2]

\* Monster.update(deltaTime, player, bullets)
Monster_update(m, dt, p, bs) ==
    IF ~m.isActive THEN [monster |-> m, bullets |-> bs]
    ELSE
    With(Hypot(Sub(p.x, m.x), Sub(p.y, m.y)), LAMBDA distance :
    LET dx == Sub(p.x, m.x)
        dy == Sub(p.y, m.y)
        move == Gt(distance, Add(m.radius + 10, p.radius))
        x1 == IF move THEN Add(m.x, Div(Mul(dx, m.speed * dt), Mul(distance, 1000))) ELSE m.x
        y1 == IF move THEN Add(m.y, Div(Mul(dy, m.speed * dt), Mul(distance, 1000))) ELSE m.y
        cd == m.shootCooldown - dt
        fire == cd <= 0
    IN [monster |-> [m EXCEPT !.x = x1, !.y = y1,
                              !.shootCooldown = IF fire THEN MonsterShootInterval ELSE cd,
                              !.isActive = IF m.health <= 0 THEN FALSE ELSE @],
        bullets |-> IF fire THEN Append(bs, createMonsterBullet(x1, y1, Atan2(dy, dx)))
                    ELSE bs])

\* monsters.forEach(monster => monster.update(deltaTime, player, bullets))
RECURSIVE UpdateMonsters(_, _, _, _, _)
UpdateMonsters(ms, dt, p, bs, i) ==
    IF i > Len(ms) THEN [monsters |-> ms, bullets |-> bs]
    ELSE With(Monster_update(ms[i], dt, p, bs), LAMBDA r :
           UpdateMonsters([ms EXCEPT ![i] = r.monster], dt, p, r.bullets, i + 1))


----------------------------------------------------------------------------
(* MonsterSpawner *)

\* new MonsterSpawner(canvas); the lifetime cap (500 in the program) is the
\* model bound MaxTotal
MonsterSpawner(startTime) ==
    [spawnInterval |-> SpawnIntervalInit, spawnTimer |-> 0,
     difficultyTimer |-> 0, difficultyInterval |-> DifficultyInterval,
     difficulty |-> 1, maxMonstersOnScreen |-> MaxOnScreenInit,
     spawnBatchSize |-> BatchSizeInit, totalMonstersSpawned |-> 0,
     maxTotalMonsters |-> MaxTotal, targetSpawnTime |-> TargetSpawnTime,
     spawnStartTime |-> startTime, spawnDuration |-> 0, spawnComplete |-> FALSE]

Min2(a, b) == IF a < b THEN a ELSE b
Max2(a, b) == IF a > b THEN a ELSE b

increaseDifficulty(sp) ==
    [sp EXCEPT !.difficulty = @ + 1,
               !.spawnInterval = Max2(SpawnIntervalFloor, @ - 10),
               !.spawnBatchSize = Min2(BatchSizeCeil, @ + 5),
               !.maxMonstersOnScreen = Min2(MaxOnScreenCeil, @ + 20)]

\* the outcomes of Math.random() in one spawnMonster call
SpawnChoices == [side : SpawnSides, along : {CanvasW \div 2}, radius : SpawnRadii]

\* a spawnMonster that puts the new monster at the front of the list
spawnMonster_Unshift(ms, sp, c) ==
    LET x == CASE c.side = 0 -> c.along
               [] c.side = 1 -> CanvasW + SpawnMargin
               [] c.side = 2 -> c.along
               [] OTHER -> -SpawnMargin
        y == CASE c.side = 0 -> -SpawnMargin
               [] c.side = 1 -> c.along
               [] c.side = 2 -> CanvasH + SpawnMargin
               [] OTHER -> c.along
    IN <<Monster(x, y, c.radius, 30 + sp.difficulty * 10, 50 + sp.difficulty * 5)>> \o ms

\* spawnMonster(monsters)
spawnMonster(ms, sp, c) ==
    LET x == CASE c.side = 0 -> c.along
               [] c.side = 1 -> CanvasW + SpawnMargin
               [] c.side = 2 -> c.along
               [] OTHER -> -SpawnMargin
        y == CASE c.side = 0 -> -SpawnMargin
               [] c.side = 1 -> c.along
               [] c.side = 2 -> CanvasH + SpawnMargin
               [] OTHER -> c.along
    IN Append(ms, Monster(x, y, c.radius, 30 + sp.difficulty * 10, 50 + sp.difficulty * 5))

\* Math.ceil(this.spawnRate * deltaTime), spawnRate = maxTotalMonsters / (targetSpawnTime / 1000)
monstersToSpawnThisFrame(sp, dt) == CeilDiv(sp.maxTotalMonsters * dt, sp.targetSpawnTime)

\* a batch size that leaves out the room left on screen
BatchSize_NoScreenRoom(sp, dt, ms) ==
    IF sp.totalMonstersSpawned >= sp.maxTotalMonsters THEN 0
    ELSE IF ~(Len(ms) < sp.maxMonstersOnScreen) THEN 0
    ELSE IF ~(sp.spawnTimer + dt >= sp.spawnInterval) THEN 0
    ELSE Max2(0, Min2(Min2(sp.spawnBatchSize, sp.maxTotalMonsters - sp.totalMonstersSpawned),
                      monstersToSpawnThisFrame(sp, dt)))

\* the number of spawnMonster calls update(deltaTime, monsters) makes
BatchSize(sp, dt, ms) ==
    IF sp.totalMonstersSpawned >= sp.maxTotalMonsters THEN 0
    ELSE IF ~(Len(ms) < sp.maxMonstersOnScreen) THEN 0
    ELSE IF ~(sp.spawnTimer + dt >= sp.spawnInterval) THEN 0
    ELSE Max2(0, Min2(Min2(sp.spawnBatchSize, sp.maxTotalMonsters - sp.totalMonstersSpawned),
                      Min2(sp.maxMonstersOnScreen - Len(ms), monstersToSpawnThisFrame(sp, dt))))

RECURSIVE SpawnBatch(_, _, _, _)
SpawnBatch(ms, sp, rnd, i) ==
    IF i > Len(rnd) THEN ms ELSE SpawnBatch(spawnMonster(ms, sp, rnd[i]), sp, rnd, i + 1)

\* an update that records the duration on every call made at the limit
MonsterSpawner_update_AlwaysRecords(sp, dt, ms, clock, rnd) ==
    IF sp.totalMonstersSpawned >= sp.maxTotalMonsters
    THEN [spawner |-> [sp EXCEPT !.spawnDuration = clock - sp.spawnStartTime,
                                 !.spawnComplete = TRUE],
          monsters |-> ms]
    ELSE
    LET onScreen == Len(ms) < sp.maxMonstersOnScreen
        timer1 == IF onScreen THEN sp.spawnTimer + dt ELSE sp.spawnTimer
        due == onScreen /\ timer1 >= sp.spawnInterval
        sp1 == [sp EXCEPT !.spawnTimer = IF due THEN 0 ELSE timer1,
                          !.totalMonstersSpawned = IF due THEN @ + Len(rnd) ELSE @]
        ms1 == IF due THEN SpawnBatch(ms, sp, rnd, 1) ELSE ms
        dtimer == sp.difficultyTimer + dt
        sp2 == IF dtimer >= sp.difficultyInterval
               THEN [increaseDifficulty(sp1) EXCEPT !.difficultyTimer = 0]
               ELSE [sp1 EXCEPT !.difficultyTimer = dtimer]
    IN [spawner |-> sp2, monsters |-> ms1]

\* MonsterSpawner.update(deltaTime, monsters); rnd holds the random outcomes
\* of the BatchSize(sp, dt, ms) spawnMonster calls; spawnDuration is kept in ms
MonsterSpawner_update(sp, dt, ms, clock, rnd) ==
    IF sp.totalMonstersSpawned >= sp.maxTotalMonsters
    THEN [spawner |-> IF ~sp.spawnComplete
                      THEN [sp EXCEPT !.spawnDuration = clock - sp.spawnStartTime,
                                      !.spawnComplete = TRUE]
                      ELSE sp,
          monsters |-> ms]
    ELSE
    LET onScreen == Len(ms) < sp.maxMonstersOnScreen
        timer1 == IF onScreen THEN sp.spawnTimer + dt ELSE sp.spawnTimer
        due == onScreen /\ timer1 >= sp.spawnInterval
        sp1 == [sp EXCEPT !.spawnTimer = IF due THEN 0 ELSE timer1,
                          !.totalMonstersSpawned = IF due THEN @ + Len(rnd) ELSE @]
        ms1 == IF due THEN SpawnBatch(ms, sp, rnd, 1) ELSE ms
        dtimer == sp.difficultyTimer + dt
        sp2 == IF dtimer >= sp.difficultyInterval
               THEN [increaseDifficulty(sp1) EXCEPT !.difficultyTimer = 0]
               ELSE [sp1 EXCEPT !.difficultyTimer = dtimer]
    IN [spawner |-> sp2, monsters |-> ms1]

----------------------------------------------------------------------------
(* Offload coordinator *)

\* entities.forEach((e, index) => { if (!e.id) e.id = `${kind}-${index}-${Date.now()}` })
\* uid is a creation serial the program does not have; it names the entity
\* in the properties below
AssignIds(es, kind, clock, firstUid) ==
    LET fresh == {i \in 1..Len(es) : es[i].uid = 0}
        rank(i) == Cardinality({j \in fresh : j < i})
    IN [i \in 1..Len(es) |->
          [es[i] EXCEPT !.id = IF @ = NoId THEN MainId(kind, i - 1, clock) ELSE @,
                        !.uid = IF @ = 0 THEN firstUid + rank(i) ELSE @]]

FreshCount(es) == Cardinality({i \in 1..Len(es) : es[i].uid = 0})

\* a filter that re-arms the inactive entities instead of dropping them
ActiveOnly_Rearms(es) == [i \in 1..Len(es) |-> [es[i] EXCEPT !.isActive = TRUE]]

\* a filter that keeps every entity
ActiveOnly_KeepsAll(es) == es

\* es.filter(e => e.isActive)
ActiveOnly(es) == LET isAct(e) == e.isActive IN SelectSeq(es, isAct)

\* the floats updateWorkerGame writes to the request view, in order
EncodeSnapshot(p, ms, bs) ==
    With(ActiveOnly(ms), LAMBDA am :
    With(ActiveOnly(bs), LAMBDA ab :
      <<p.x, p.y, p.radius, Len(ms)>>
      \o Flatten([i \in 1..Len(am) |-> <<am[i].x, am[i].y, am[i].radius>>])
      \o <<Len(bs)>>
      \o Flatten([i \in 1..Len(ab) |->
                   <<ab[i].x, ab[i].y, ab[i].radius, BoolToFloat(ab[i].isPlayerBullet),
                     ab[i].currentPierceCount, ab[i].maxPierceCount>>])))

\* new ArrayBuffer(Math.max(bufferSize * 4, 1024)) viewed as Float32Array
RequestCapacity(ms, bs) ==
    Max2((4 + Len(ms) * 3 + Len(bs) * 6) * 4, MinBufferBytes) \div 4

Uids(es) == [i \in 1..Len(es) |-> es[i].uid]


\* a send block that does not look at the busy flag
WorkerIdle_Always(g) == TRUE

\* a send block that takes the flag of the last processed result for the
\* sign that the worker is free
WorkerIdle_Retry(g) == ~g.workerBusy \/ g.collisionsProcessedByWorker

\* if (!workerGameState.workerBusy): the guard of the send block
WorkerIdle(g) == ~g.workerBusy

\* an updateWorkerGame that returns at once while a request is unanswered
updateWorkerGame_PausedWhileBusy(st, in, firstUid, tickNo) ==
    IF st.gs.workerBusy
    THEN [player |-> st.player, monsters |-> st.monsters, bullets |-> st.bullets,
          spawner |-> st.spawner, gs |-> st.gs, post |-> NoMsg, created |-> 0,
          moved |-> st.bullets]
    ELSE
    With(Player_update(st.player, in.dt, in.intent, st.monsters, st.bullets), LAMBDA pu :
    With(UpdateMonsters(st.monsters, in.dt, pu.player, pu.bullets, 1), LAMBDA mu :
    With([i \in 1..Len(mu.bullets) |-> Bullet_update(mu.bullets[i], in.dt)], LAMBDA bs1 :
    With(MonsterSpawner_update(st.spawner, in.dt, mu.monsters, in.clock, in.rnd), LAMBDA su :
    With(AssignIds(su.monsters, "monster", in.clock, firstUid), LAMBDA ms2 :
    With(AssignIds(bs1, "bullet", in.clock, firstUid + FreshCount(su.monsters)), LAMBDA bs2 :
    With(EncodeSnapshot(pu.player, ms2, bs2), LAMBDA values :
    LET send == WorkerIdle(st.gs)
        buffer == MkBuffer(values, RequestCapacity(ms2, bs2))
        ghost == [sentTick |-> tickNo,
                  monsterUids |-> Uids(ActiveOnly(ms2)),
                  bulletUids |-> Uids(ActiveOnly(bs2)),
                  order |-> <<>>,
                  touched |-> <<>>]
        upgrade == pu.player.score >= st.gs.upgradeThreshold
    IN [player |-> pu.player,
        monsters |-> ms2,
        bullets |-> ActiveOnly(bs2),
        spawner |-> su.spawner,
        gs |-> [st.gs EXCEPT
                  !.workerBusy = IF send THEN TRUE ELSE @,
                  !.isGameOver = IF ~pu.player.isActive THEN TRUE ELSE @,
                  !.upgradePoints = IF upgrade THEN @ + 1 ELSE @,
                  !.upgradeThreshold = IF upgrade THEN @ + UpgradeStep ELSE @],
        post |-> IF send THEN RequestMsg(buffer, Len(values), ghost) ELSE NoMsg,
        created |-> FreshCount(su.monsters) + FreshCount(bs1),
        moved |-> bs2])))))))

\* updateWorkerGame(deltaTime): the state after the call, the message it
\* posts (NoMsg if none) and the bullets as they were before the closing
\* filter (moved).  in = [dt, intent, clock, rnd]
updateWorkerGame(st, in, firstUid, tickNo) ==
    With(Player_update(st.player, in.dt, in.intent, st.monsters, st.bullets), LAMBDA pu :
    With(UpdateMonsters(st.monsters, in.dt, pu.player, pu.bullets, 1), LAMBDA mu :
    With([i \in 1..Len(mu.bullets) |-> Bullet_update(mu.bullets[i], in.dt)], LAMBDA bs1 :
    With(MonsterSpawner_update(st.spawner, in.dt, mu.monsters, in.clock, in.rnd), LAMBDA su :
    With(AssignIds(su.monsters, "monster", in.clock, firstUid), LAMBDA ms2 :
    With(AssignIds(bs1, "bullet", in.clock, firstUid + FreshCount(su.monsters)), LAMBDA bs2 :
    With(EncodeSnapshot(pu.player, ms2, bs2), LAMBDA values :
    LET send == WorkerIdle(st.gs)
        buffer == MkBuffer(values, RequestCapacity(ms2, bs2))
        ghost == [sentTick |-> tickNo,
                  monsterUids |-> Uids(ActiveOnly(ms2)),
                  bulletUids |-> Uids(ActiveOnly(bs2)),
                  order |-> <<>>,
                  touched |-> <<>>]
        upgrade == pu.player.score >= st.gs.upgradeThreshold
    IN [player |-> pu.player,
        monsters |-> ms2,
        bullets |-> ActiveOnly(bs2),
        spawner |-> su.spawner,
        gs |-> [st.gs EXCEPT
                  !.workerBusy = IF send THEN TRUE ELSE @,
                  !.isGameOver = IF ~pu.player.isActive THEN TRUE ELSE @,
                  !.upgradePoints = IF upgrade THEN @ + 1 ELSE @,
                  !.upgradeThreshold = IF upgrade THEN @ + UpgradeStep ELSE @],
        post |-> IF send THEN RequestMsg(buffer, Len(values), ghost) ELSE NoMsg,
        created |-> FreshCount(su.monsters) + FreshCount(bs1),
        moved |-> bs2])))))))

\* deserializeResults(view)
deserializeResults(view) ==
    LET monsterCount == LoopCount(ViewAt(view, 3))
        bulletCount == LoopCount(ViewAt(view, 4 + 3 * monsterCount))
        base == 4 + 3 * monsterCount + 1
    IN [player |-> [x |-> ViewAt(view, 0), y |-> ViewAt(view, 1)],
        score |-> ViewAt(view, 2),
        monsters |-> [i \in 1..monsterCount |->
                        [x |-> ViewAt(view, 4 + 3 * (i - 1)),
                         y |-> ViewAt(view, 4 + 3 * (i - 1) + 1),
                         flash |-> Gt(ViewAt(view, 4 + 3 * (i - 1) + 2), 0),
                         id |-> WireId("monster", i - 1)]],
        bullets |-> [i \in 1..bulletCount |->
                       [id |-> WireId("bullet", ViewAt(view, base + 3 * (i - 1))),
                        isActive |-> Gt(ViewAt(view, base + 3 * (i - 1) + 1), 0),
                        currentPierceCount |-> ViewAt(view, base + 3 * (i - 1) + 2)]]]

\* a lookup that takes the index carried by the id for the bullet's place
\* in the current list
BulletMapGet_ByIndex(bs, id) == IF id[2] + 1 <= Len(bs) THEN id[2] + 1 ELSE 0

\* bulletMap.get(id) after bulletMap.set(bullet.id, bullet) for every bullet
\* in order: the last bullet with that id, 0 if there is none
BulletMapGet(bs, id) ==
    IF \E k \in 1..Len(bs) : bs[k].id = id
    THEN CHOOSE k \in 1..Len(bs) : bs[k].id = id /\ \A l \in (k + 1)..Len(bs) : bs[l].id # id
    ELSE 0

\* bullets.forEach(updatedBullet => { const bullet = bulletMap.get(updatedBullet.id); if (bullet) ... })
RECURSIVE ApplyBulletUpdates(_, _, _)
ApplyBulletUpdates(bs, updates, i) ==
    IF i > Len(updates) THEN bs
    ELSE With(BulletMapGet(bs, updates[i].id), LAMBDA k :
           ApplyBulletUpdates(
              IF k = 0 THEN bs
              ELSE [bs EXCEPT ![k].isActive = updates[i].isActive,
                              ![k].currentPierceCount = updates[i].currentPierceCount],
              updates, i + 1))

\* the monster indices applyCollisionResults writes (counted from 1)
MergedMonsterIndices(results, ms) == 1..Min2(Len(results.monsters), Len(ms))

\* a merge that takes the result's score for the new score
applyCollisionResults_SetsScore(st, results) ==
    [st EXCEPT
       !.player = [@ EXCEPT !.x = results.player.x, !.y = results.player.y,
                            !.score = results.score],
       !.monsters = [i \in 1..Len(st.monsters) |->
                       IF i \in MergedMonsterIndices(results, st.monsters)
                       THEN [st.monsters[i] EXCEPT !.x = results.monsters[i].x,
                                                   !.y = results.monsters[i].y]
                       ELSE st.monsters[i]],
       !.bullets = ApplyBulletUpdates(st.bullets, results.bullets, 1)]

\* applyCollisionResults(results)
applyCollisionResults(st, results) ==
    [st EXCEPT
       !.player = [@ EXCEPT !.x = results.player.x, !.y = results.player.y,
                            !.score = Add(@, results.score)],
       !.monsters = [i \in 1..Len(st.monsters) |->
                       IF i \in MergedMonsterIndices(results, st.monsters)
                       THEN [st.monsters[i] EXCEPT !.x = results.monsters[i].x,
                                                   !.y = results.monsters[i].y]
                       ELSE st.monsters[i]],
       !.bullets = ApplyBulletUpdates(st.bullets, results.bullets, 1)]

\* a handler that merges a result but leaves the busy flag set
handleWorkerMessage_KeepsBusy(st, message) ==
    CASE message.type = "collisionResults" ->
           [applyCollisionResults(st, deserializeResults(message.buffer))
              EXCEPT !.gs.collisionsProcessedByWorker = TRUE]
      [] message.type = "error" -> [st EXCEPT !.gs.workerBusy = FALSE]
      [] OTHER -> st

\* a handler whose error case also ends the game
handleWorkerMessage_ErrorEndsGame(st, message) ==
    CASE message.type = "collisionResults" ->
           [applyCollisionResults(st, deserializeResults(message.buffer))
              EXCEPT !.gs.collisionsProcessedByWorker = TRUE,
                     !.gs.workerBusy = FALSE]
      [] message.type = "error" -> [st EXCEPT !.gs.workerBusy = FALSE, !.gs.isGameOver = TRUE]
      [] OTHER -> st

\* handleWorkerMessage(e)
handleWorkerMessage(st, message) ==
    CASE message.type = "collisionResults" ->
           [applyCollisionResults(st, deserializeResults(message.buffer))
              EXCEPT !.gs.collisionsProcessedByWorker = TRUE,
                     !.gs.workerBusy = FALSE]
      [] message.type = "error" -> [st EXCEPT !.gs.workerBusy = FALSE]
      [] OTHER -> st


----------------------------------------------------------------------------
(* Single-threaded game: handleCollisions, cleanupEntities, updateGame *)

\* monsters.forEach(monster => { if (monster.isActive && player.isActive &&
\*     circlesCollide(player, monster)) resolveCollision(player, monster); })
\* acc = <<player, monsters>>
RECURSIVE SoloPlayerMonsterPass(_, _)
SoloPlayerMonsterPass(acc, i) ==
    IF i > Len(acc[2]) THEN acc
    ELSE IF acc[2][i].isActive /\ acc[1].isActive /\ circlesCollide(acc[1], acc[2][i])
         THEN With(resolveCollision(acc[1], acc[2][i]), LAMBDA r :
                SoloPlayerMonsterPass(<<r[1], [acc[2] EXCEPT ![i] = r[2]]>>, i + 1))
         ELSE SoloPlayerMonsterPass(acc, i + 1)

RECURSIVE SoloMonsterMonsterPass(_, _, _)
SoloMonsterMonsterPass(ms, i, j) ==
    IF i > Len(ms) THEN ms
    ELSE IF j > Len(ms) THEN SoloMonsterMonsterPass(ms, i + 1, i + 2)
    ELSE IF ms[i].isActive /\ ms[j].isActive /\ circlesCollide(ms[i], ms[j])
         THEN With(resolveCollision(ms[i], ms[j]), LAMBDA r :
                SoloMonsterMonsterPass([ms EXCEPT ![i] = r[1], ![j] = r[2]], i, j + 1))
         ELSE SoloMonsterMonsterPass(ms, i, j + 1)

\* a hit that leaves the bullet active whatever its count
PierceHit_NeverSpent(b) == [b EXCEPT !.currentPierceCount = @ + 1]

\* bullet.currentPierceCount++; if (bullet.currentPierceCount > bullet.maxPierceCount) bullet.isActive = false
PierceHit(b) ==
    LET b1 == [b EXCEPT !.currentPierceCount = @ + 1]
    IN IF b1.currentPierceCount > b1.maxPierceCount THEN [b1 EXCEPT !.isActive = FALSE] ELSE b1

\* an inner loop that stops at the hit that spends the bullet
RECURSIVE SoloBulletVsMonsters_EarlyExit(_, _, _)
SoloBulletVsMonsters_EarlyExit(acc, ms, k) ==
    IF k > Len(ms) \/ ~acc[1].isActive THEN acc
    ELSE IF ms[k].isActive /\ circlesCollide(acc[1], ms[k])
         THEN SoloBulletVsMonsters_EarlyExit(
                 <<PierceHit(acc[1]),
                   IF acc[1].isPlayerBullet THEN acc[2] + ScorePerHit ELSE acc[2]>>, ms, k + 1)
         ELSE SoloBulletVsMonsters_EarlyExit(acc, ms, k + 1)

\* monsters.forEach(monster => { if (monster.isActive && circlesCollide(bullet, monster)) {
\*     if (monster.takeDamage()) { if (bullet.isPlayerBullet) player.addScore(50); } ... } })
\* acc = <<bullet, player.score>>
RECURSIVE SoloBulletVsMonsters(_, _, _)
SoloBulletVsMonsters(acc, ms, k) ==
    IF k > Len(ms) THEN acc
    ELSE IF ms[k].isActive /\ circlesCollide(acc[1], ms[k])
         THEN SoloBulletVsMonsters(
                 <<PierceHit(acc[1]),
                   IF acc[1].isPlayerBullet THEN acc[2] + ScorePerHit ELSE acc[2]>>, ms, k + 1)
         ELSE SoloBulletVsMonsters(acc, ms, k + 1)

\* bullets.forEach(bullet => { if (bullet.isActive) { monsters.forEach(...) } })
\* acc = <<bullets, player.score>>
RECURSIVE SoloBulletMonsterPass(_, _, _)
SoloBulletMonsterPass(acc, ms, i) ==
    IF i > Len(acc[1]) THEN acc
    ELSE IF acc[1][i].isActive
         THEN With(SoloBulletVsMonsters(<<acc[1][i], acc[2]>>, ms, 1), LAMBDA r :
                SoloBulletMonsterPass(<<[acc[1] EXCEPT ![i] = r[1]], r[2]>>, ms, i + 1))
         ELSE SoloBulletMonsterPass(acc, ms, i + 1)

\* bullets.forEach(bullet => { if (bullet.isActive && !bullet.isPlayerBullet &&
\*     player.isActive && circlesCollide(bullet, player)) { ...; bullet.isActive = false; } })
SoloBulletPlayerPass(bs, p) ==
    [i \in 1..Len(bs) |->
       IF bs[i].isActive /\ ~bs[i].isPlayerBullet /\ p.isActive /\ circlesCollide(bs[i], p)
       THEN [bs[i] EXCEPT !.isActive = FALSE] ELSE bs[i]]

\* the same loop, for the player: player.takeDamage(0) at every such bullet
RECURSIVE SoloPlayerDamagePass(_, _, _)
SoloPlayerDamagePass(bs, p, i) ==
    IF i > Len(bs) THEN p
    ELSE IF bs[i].isActive /\ ~bs[i].isPlayerBullet /\ p.isActive /\ circlesCollide(bs[i], p)
         THEN SoloPlayerDamagePass(bs, Player_takeDamage(p), i + 1)
         ELSE SoloPlayerDamagePass(bs, p, i + 1)

\* handleCollisions(gameState); g = [player, monsters, bullets]
handleCollisions(g) ==
    With(SoloPlayerMonsterPass(<<g.player, g.monsters>>, 1), LAMBDA pm :
    With(SoloMonsterMonsterPass(pm[2], 1, 2), LAMBDA ms :
    With(SoloBulletMonsterPass(<<g.bullets, pm[1].score>>, ms, 1), LAMBDA bm :
      [player |-> SoloPlayerDamagePass(bm[1], [pm[1] EXCEPT !.score = bm[2]], 1),
       monsters |-> ms,
       bullets |-> SoloBulletPlayerPass(bm[1], pm[1])])))

\* cleanupEntities(gameState)
cleanupEntities(g) == [g EXCEPT !.bullets = ActiveOnly(@)]

\* a creation serial for every entity that has none (the game itself gives
\* its entities no id)
Numbered(es, firstUid) ==
    LET fresh == {i \in 1..Len(es) : es[i].uid = 0}
        rank(i) == Cardinality({j \in fresh : j < i})
    IN [i \in 1..Len(es) |-> [es[i] EXCEPT !.uid = IF @ = 0 THEN firstUid + rank(i) ELSE @]]

\* updateGame(deltaTime, gameState): the state after the call, with the
\* lists as handleCollisions found and left them.  in = [dt, intent, clock, rnd]
updateGame(st, in, firstUid) ==
    With(Player_update(st.player, in.dt, in.intent, st.monsters, st.bullets), LAMBDA pu :
    With(UpdateMonsters(st.monsters, in.dt, pu.player, pu.bullets, 1), LAMBDA mu :
    With([i \in 1..Len(mu.bullets) |-> Bullet_update(mu.bullets[i], in.dt)], LAMBDA bs1 :
    With(MonsterSpawner_update(st.spawner, in.dt, mu.monsters, in.clock, in.rnd), LAMBDA su :
    With([player |-> pu.player,
          monsters |-> Numbered(su.monsters, firstUid),
          bullets |-> Numbered(bs1, firstUid + FreshCount(su.monsters))], LAMBDA pre :
    With(handleCollisions(pre), LAMBDA post :
    LET upgrade == post.player.score >= st.gs.upgradeThreshold
    IN [player |-> post.player,
        monsters |-> post.monsters,
        bullets |-> cleanupEntities(post).bullets,
        spawner |-> su.spawner,
        gs |-> [st.gs EXCEPT
                  !.isGameOver = IF ~post.player.isActive THEN TRUE ELSE @,
                  !.upgradePoints = IF upgrade THEN @ + 1 ELSE @,
                  !.upgradeThreshold = IF upgrade THEN @ + UpgradeStep ELSE @],
        pre |-> pre,
        post |-> post,
        created |-> FreshCount(su.monsters) + FreshCount(bs1)]))))))

----------------------------------------------------------------------------
(* The system: the main context, the worker and the two message channels *)

St == [player |-> player, monsters |-> monsters, bullets |-> bullets,
       spawner |-> spawner, gs |-> gs]

\* the source entity of each bullet update of a reply: the uid of the
\* snapshot record the worker touched, 0 for a record read from the padding
UpdateSources(ghost) ==
    [i \in 1..Len(ghost.touched) |->
       IF ghost.touched[i] < Len(ghost.bulletUids)
       THEN ghost.bulletUids[ghost.touched[i] + 1] ELSE 0]

NoMerge == [lag |-> 0, results |-> <<>>, sources |-> <<>>, snapMonsters |-> <<>>,
            newMonsters |-> 0, newBullets |-> 0, pruned |-> 0]

\* what a merge step records about itself
MergeInfo(message, st, tickNo) ==
    [lag |-> tickNo - message.ghost.sentTick,
     results |-> deserializeResults(message.buffer),
     sources |-> UpdateSources(message.ghost),
     snapMonsters |-> message.ghost.monsterUids,
     newMonsters |-> Len(st.monsters) - Len(message.ghost.monsterUids),
     newBullets |-> Cardinality({k \in 1..Len(st.bullets) :
                       \A j \in 1..Len(message.ghost.bulletUids) :
                          message.ghost.bulletUids[j] # st.bullets[k].uid}),
     pruned |-> Cardinality({i \in 1..Len(message.ghost.touched) :
                   /\ UpdateSources(message.ghost)[i] # 0
                   /\ \A k \in 1..Len(st.bullets) :
                        st.bullets[k].uid # UpdateSources(message.ghost)[i]})]

\* initWorkerGame()
Init ==
    /\ player = Player(CanvasW \div 2, CanvasH \div 2)
    /\ monsters = <<>>
    /\ bullets = <<>>
    /\ spawner = MonsterSpawner(0)
    /\ gs = [workerBusy |-> FALSE, isGameOver |-> FALSE, upgradePoints |-> 0,
             upgradeThreshold |-> UpgradeStep, collisionsProcessedByWorker |-> FALSE]
    /\ now = 0
    /\ ticks = 0
    /\ inbox = <<>>
    /\ outbox = <<>>
    /\ hist = [op |-> "init", nextUid |-> 1, nSent |-> 0, nHandled |-> 0, nApplied |-> 0,
               nErrors |-> 0, nForeign |-> 0, merge |-> NoMerge, spent |-> {}, live |-> <<>>]

\* an entity that a filter on isActive keeps
StillActive(e) == e.isActive

\* one frame of workerGameLoop: updateWorkerGame(deltaTime) with the inputs
\* the frame finds (elapsed time, keys held, clock, Math.random() outcomes)
TickWith(dts, intents, steps) ==
    /\ ticks < MaxTicks
    /\ ~gs.isGameOver
    /\ \E dt \in dts, intent \in intents, step \in steps :
         \E rnd \in [1..BatchSize(spawner, dt, monsters) -> SpawnChoices] :
           LET in == [dt |-> dt, intent |-> intent, clock |-> now + step, rnd |-> rnd]
           IN \E r \in {updateWorkerGame(St, in, hist.nextUid, ticks + 1)} :
              /\ player' = r.player
              /\ monsters' = r.monsters
              /\ bullets' = r.bullets
              /\ spawner' = r.spawner
              /\ gs' = r.gs
              /\ now' = now + step
              /\ ticks' = ticks + 1
              /\ inbox' = IF r.post = NoMsg THEN inbox ELSE Append(inbox, r.post)
              /\ hist' = [hist EXCEPT
                            !.op = "tick", !.merge = NoMerge,
                            !.spent = {r.moved[i].uid : i \in {k \in 1..Len(r.moved) :
                                                                 ~r.moved[k].isActive}},
                            !.live = Uids(SelectSeq(r.moved, StillActive)),
                            !.nextUid = @ + r.created,
                            !.nSent = IF r.post = NoMsg THEN @ ELSE @ + 1]
    /\ UNCHANGED outbox

Tick == TickWith(DtSet, Intents, ClockSteps)

\* the worker's event loop runs self.onmessage on the next message
WorkerStep ==
    /\ inbox # <<>>
    /\ outbox' = Append(outbox, onmessage(Head(inbox)))
    /\ inbox' = Tail(inbox)
    /\ hist' = [hist EXCEPT !.op = "worker", !.merge = NoMerge, !.spent = {}, !.live = <<>>,
                            !.nHandled = @ + 1]
    /\ UNCHANGED <<player, monsters, bullets, spawner, gs, now, ticks>>

\* the main event loop delivers the next worker message: handleWorkerMessage(e)
MainReceive ==
    /\ outbox # <<>>
    /\ LET message == Head(outbox)
       IN \E r \in {handleWorkerMessage(St, message)} :
          /\ player' = r.player
          /\ monsters' = r.monsters
          /\ bullets' = r.bullets
          /\ spawner' = r.spawner
          /\ gs' = r.gs
          /\ hist' = [hist EXCEPT
                        !.op = IF message.type = "collisionResults" THEN "merge" ELSE "error",
                        !.spent = {}, !.live = <<>>,
                        !.merge = IF message.type = "collisionResults"
                                  THEN MergeInfo(message, St, ticks) ELSE NoMerge,
                        !.nApplied = IF message.type = "collisionResults" THEN @ + 1 ELSE @,
                        !.nErrors = IF message.type = "error" THEN @ + 1 ELSE @]
    /\ outbox' = Tail(outbox)
    /\ UNCHANGED <<now, ticks, inbox>>

\* another script of the page posts a message of the older worker protocol
PostForeign ==
    /\ hist.nForeign < MaxForeign
    /\ \E t \in ForeignTypes : inbox' = Append(inbox, ForeignMsg(t))
    /\ hist' = [hist EXCEPT !.op = "foreign", !.merge = NoMerge, !.spent = {}, !.live = <<>>,
                            !.nForeign = @ + 1]
    /\ UNCHANGED <<player, monsters, bullets, spawner, gs, now, ticks, outbox>>

Next == Tick \/ WorkerStep \/ MainReceive

Spec == Init /\ [][Next]_vars

\* the frames of the open system: steady frame time, no key held
SteadyTick == TickWith(SteadyDtSet, NoKeys, ClockSteps)

OpenNext == SteadyTick \/ WorkerStep \/ MainReceive \/ PostForeign

OpenSpec == Init /\ [][OpenNext]_vars

\* frames under a coarse wall clock: Date.now() may read the same in
\* successive frames (its resolution is the browser's choice), and a frame
\* may come seconds after the last one (deltaTime is not clamped)
StallClockSteps == {0, 1}
LongDtSet == {50, 3000}

StallTick == TickWith(LongDtSet, NoKeys, StallClockSteps)

StallNext == StallTick \/ WorkerStep \/ MainReceive

StallSpec == Init /\ [][StallNext]_vars

\* const collisionData = { player: {...}, monsters: monsters.map(...), bullets: bullets.map(...) }
collisionData(st) ==
    [player |-> [x |-> st.player.x, y |-> st.player.y, radius |-> st.player.radius,
                 mass |-> st.player.mass, id |-> <<"player">>],
     monsters |-> [i \in 1..Len(st.monsters) |->
                     [x |-> st.monsters[i].x, y |-> st.monsters[i].y,
                      radius |-> st.monsters[i].radius, mass |-> st.monsters[i].mass,
                      id |-> st.monsters[i].id]],
     bullets |-> [i \in 1..Len(st.bullets) |->
                    [x |-> st.bullets[i].x, y |-> st.bullets[i].y,
                     radius |-> st.bullets[i].radius,
                     isPlayerBullet |-> st.bullets[i].isPlayerBullet,
                     damage |-> st.bullets[i].damage,
                     currentPierceCount |-> st.bullets[i].currentPierceCount,
                     maxPierceCount |-> st.bullets[i].maxPierceCount,
                     id |-> st.bullets[i].id,
                     isActive |-> st.bullets[i].isActive]]]

\* The request codec on its own: a game state of a given size is serialized
\* by the coordinator and deserialized by the worker.
\* Sizes of the lists, and the coordinates the entities are placed at: the
\* last one is the least positive integer that is not a float32, standing
\* for the doubles with more than 24 significant bits
SnapshotSizes == {0, 1, 2, 101}
SnapshotCoords == <<-30, 0, 137, 16777217>>
SnapshotPhases == 0..3

CoordAt(i) == SnapshotCoords[(i % Len(SnapshotCoords)) + 1]

\* the i-th monster and the i-th bullet of a sample state
SampleMonster(i, k) ==
    [Monster(CoordAt(i + k), CoordAt(2 * i + k + 1), 15 + (i % 3), 40, 55)
       EXCEPT !.id = MainId("monster", i - 1, 1), !.uid = i]

SampleBullet(i, k) ==
    IF i % 2 = 0
    THEN [createPlayerBullet(CoordAt(i + k + 2), CoordAt(3 * i + k), <<1000, 0>>, 1 + (i % 5))
            EXCEPT !.id = MainId("bullet", i - 1, 1), !.uid = 1000 + i,
                   !.currentPierceCount = i % 4, !.isActive = (i % 3 # 0)]
    ELSE [createMonsterBullet(CoordAt(i + k + 2), CoordAt(3 * i + k), <<0, 1000>>)
            EXCEPT !.id = MainId("bullet", i - 1, 1), !.uid = 1000 + i,
                   !.currentPierceCount = i % 4, !.isActive = (i % 3 # 0)]

CodecInit ==
    /\ \E n \in SnapshotSizes, m \in SnapshotSizes, k \in SnapshotPhases :
         /\ player = [Player(CoordAt(k), CoordAt(k + 1)) EXCEPT !.score = 50 * k]
         /\ monsters = [i \in 1..n |-> SampleMonster(i, k)]
         /\ bullets = [i \in 1..m |-> SampleBullet(i, k)]
    /\ spawner = MonsterSpawner(0)
    /\ gs = [workerBusy |-> FALSE, isGameOver |-> FALSE, upgradePoints |-> 0,
             upgradeThreshold |-> UpgradeStep, collisionsProcessedByWorker |-> FALSE]
    /\ now = 1
    /\ ticks = 0
    /\ inbox = <<>>
    /\ outbox = <<>>
    /\ hist = [op |-> "snapshot", data |-> <<>>]

\* gameWorker.postMessage({ type: 'processCollisions', buffer: serializeGameData(collisionData) })
PostSnapshot ==
    /\ ~gs.workerBusy
    /\ gs' = [gs EXCEPT !.workerBusy = TRUE]
    /\ inbox' = Append(inbox, [type |-> "processCollisions",
                               buffer |-> serializeGameData(collisionData(St))])
    /\ hist' = [hist EXCEPT !.op = "post"]
    /\ UNCHANGED <<player, monsters, bullets, spawner, now, ticks, outbox>>

\* data = deserializeGameData(new Float32Array(message.buffer))
ReadSnapshot ==
    /\ inbox # <<>>
    /\ hist' = [op |-> "decoded", data |-> deserializeGameDataP000(Head(inbox).buffer)]
    /\ inbox' = Tail(inbox)
    /\ UNCHANGED <<player, monsters, bullets, spawner, gs, now, ticks, outbox>>

CodecNext == PostSnapshot \/ ReadSnapshot

CodecSpec == CodecInit /\ [][CodecNext]_vars

\* The send block of updateWorkerGame on its own: the state of a frame with
\* given numbers of monsters and bullets (the game holds up to 500 monsters)
\* is written to a request buffer, which the worker decodes.
RequestMonsterCounts == {0, 1, 83, 84, 85, 101}
RequestBulletCounts == {0, 1, 3}
RequestCoords == <<-30, 0, 137, 230>>

RequestCoordAt(i) == RequestCoords[(i % Len(RequestCoords)) + 1]

RequestInit ==
    /\ \E n \in RequestMonsterCounts, m \in RequestBulletCounts, k \in SnapshotPhases :
         /\ player = Player(RequestCoordAt(k + 2), RequestCoordAt(k + 3))
         /\ monsters = [i \in 1..n |->
                          [SampleMonster(i, k) EXCEPT !.x = RequestCoordAt(i + k),
                                                      !.y = RequestCoordAt(2 * i + k + 1)]]
         /\ bullets = [i \in 1..m |->
                         [SampleBullet(i, k) EXCEPT !.x = RequestCoordAt(i + k + 2),
                                                    !.y = RequestCoordAt(3 * i + k)]]
    /\ spawner = MonsterSpawner(0)
    /\ gs = [workerBusy |-> FALSE, isGameOver |-> FALSE, upgradePoints |-> 0,
             upgradeThreshold |-> UpgradeStep, collisionsProcessedByWorker |-> FALSE]
    /\ now = 1
    /\ ticks = 0
    /\ inbox = <<>>
    /\ outbox = <<>>
    /\ hist = [op |-> "snapshot", data |-> <<>>]

\* if (!workerGameState.workerBusy) { ... gameWorker.postMessage({ type: 'processCollisions', ... }) }
PostRequest ==
    /\ WorkerIdle(gs)
    /\ gs' = [gs EXCEPT !.workerBusy = TRUE]
    /\ \E values \in {EncodeSnapshot(player, monsters, bullets)} :
         inbox' = Append(inbox,
                         RequestMsg(MkBuffer(values, RequestCapacity(monsters, bullets)),
                                    Len(values),
                                    [sentTick |-> ticks,
                                     monsterUids |-> Uids(ActiveOnly(monsters)),
                                     bulletUids |-> Uids(ActiveOnly(bullets)),
                                     order |-> <<>>, touched |-> <<>>]))
    /\ hist' = [hist EXCEPT !.op = "post"]
    /\ UNCHANGED <<player, monsters, bullets, spawner, now, ticks, outbox>>

\* data = deserializeGameData(new Float32Array(message.buffer))
ReadRequest ==
    /\ inbox # <<>>
    /\ hist' = [op |-> "decoded", data |-> deserializeGameData(Head(inbox).buffer)]
    /\ inbox' = Tail(inbox)
    /\ UNCHANGED <<player, monsters, bullets, spawner, gs, now, ticks, outbox>>

RequestNext == PostRequest \/ ReadRequest

RequestSpec == RequestInit /\ [][RequestNext]_vars

\* The spawner on its own, with the lifetime cap of the program: the game
\* calls monsterSpawner.update(deltaTime, monsters) once per frame and never
\* removes a monster from the list (monsters are invincible).
SpawnerDtSet == {50, 1000}

\* the outcome of Math.random() taken for every monster of these runs
SpawnerChoice == [side |-> 1, along |-> CanvasW \div 2, radius |-> 15]

SpawnerInit ==
    /\ player = Player(CanvasW \div 2, CanvasH \div 2)
    /\ monsters = <<>>
    /\ bullets = <<>>
    /\ spawner = [MonsterSpawner(0) EXCEPT !.maxTotalMonsters = MaxTotalMonsters]
    /\ gs = [workerBusy |-> FALSE, isGameOver |-> FALSE, upgradePoints |-> 0,
             upgradeThreshold |-> UpgradeStep, collisionsProcessedByWorker |-> FALSE]
    /\ now = 0
    /\ ticks = 0
    /\ inbox = <<>>
    /\ outbox = <<>>
    /\ hist = [op |-> "init", spawned |-> 0, before |-> MonsterSpawner(0)]

\* monsterSpawner.update(deltaTime, monsters) in a frame of dt ms
SpawnerUpdate(dt, bound) ==
    /\ ticks < bound
    /\ \E r \in {MonsterSpawner_update(spawner, dt, monsters, now + dt,
                     [i \in 1..BatchSize(spawner, dt, monsters) |-> SpawnerChoice])} :
         /\ spawner' = r.spawner
         /\ monsters' = r.monsters
         /\ hist' = [op |-> "spawn", spawned |-> Len(r.monsters) - Len(monsters),
                     before |-> spawner]
    /\ now' = now + dt
    /\ ticks' = ticks + 1
    /\ UNCHANGED <<player, bullets, gs, inbox, outbox>>

SpawnerTick == \E dt \in SpawnerDtSet : SpawnerUpdate(dt, MaxSpawnerTicks)

SpawnerSpec == SpawnerInit /\ [][SpawnerTick]_vars

\* The spawner ticked 60 times per second: frames of 1/60 s, in whole
\* milliseconds 17, 17, 16, for the target spawn time and a few frames more
SixtyHzDt(k) == IF k % 3 = 0 THEN 16 ELSE 17

SixtyHzFrames == (TargetSpawnTime * 60) \div 1000

SixtyHzTick == SpawnerUpdate(SixtyHzDt(ticks + 1), SixtyHzFrames + 3)

SixtyHzSpec == SpawnerInit /\ [][SixtyHzTick]_vars

\* The single-threaded game in the middle of a run: the player at the
\* centre, up to three monsters around a point to its right, and one bullet
\* on the line through that point (or far out to the right, about to pass
\* the bound Bullet.update tests), with a pierce count and limit as given.
\* The limit of 2 is the one of the spec's example; the BulletFactory's
\* limits start at 10.
SoloMonsterSpots == <<<<168, 100>>, <<141, 115>>, <<141, 85>>>>
SoloBulletXs == {115, 150, 1990}
SoloPierce == {<<0, 2>>, <<0, 10>>, <<8, 10>>, <<10, 10>>}
SoloDtSet == {10, 50}

SoloBullet(x, owner, pc) ==
    [(IF owner THEN Bullet(x, CanvasH \div 2, <<1000, 0>>, 700, 30, 6, TRUE, pc[2])
      ELSE Bullet(x, CanvasH \div 2, <<1000, 0>>, MonsterBulletSpeed, 5,
                  MonsterBulletRadius, FALSE, pc[2]))
       EXCEPT !.currentPierceCount = pc[1], !.uid = 10]

NoPass == [player |-> <<>>, monsters |-> <<>>, bullets |-> <<>>]

SoloInit ==
    /\ \E k \in 0..Len(SoloMonsterSpots), x \in SoloBulletXs, owner \in BOOLEAN,
          pc \in SoloPierce :
         /\ monsters = [i \in 1..k |->
                          [Monster(SoloMonsterSpots[i][1], SoloMonsterSpots[i][2], 15, 40, 55)
                             EXCEPT !.uid = i, !.shootCooldown = MonsterShootInterval]]
         /\ bullets = <<SoloBullet(x, owner, pc)>>
         /\ spawner = [MonsterSpawner(0) EXCEPT !.totalMonstersSpawned = k]
    /\ player = Player(CanvasW \div 2, CanvasH \div 2)
    /\ gs = [workerBusy |-> FALSE, isGameOver |-> FALSE, upgradePoints |-> 0,
             upgradeThreshold |-> UpgradeStep, collisionsProcessedByWorker |-> FALSE]
    /\ now = 1
    /\ ticks = 0
    /\ inbox = <<>>
    /\ outbox = <<>>
    /\ hist = [op |-> "init", nextUid |-> 11, pre |-> NoPass, post |-> NoPass]

\* one frame of gameLoop: updateGame(deltaTime, gameState)
SoloTick ==
    /\ ticks < MaxSoloTicks
    /\ ~gs.isGameOver
    /\ \E dt \in SoloDtSet :
         \E rnd \in [1..BatchSize(spawner, dt, monsters) -> SpawnChoices] :
           LET in == [dt |-> dt, intent |-> <<0, 0>>, clock |-> now + 1, rnd |-> rnd]
           IN \E r \in {updateGame(St, in, hist.nextUid)} :
              /\ player' = r.player
              /\ monsters' = r.monsters
              /\ bullets' = r.bullets
              /\ spawner' = r.spawner
              /\ gs' = r.gs
              /\ hist' = [op |-> "frame", nextUid |-> hist.nextUid + r.created,
                          pre |-> r.pre, post |-> r.post]
    /\ now' = now + 1
    /\ ticks' = ticks + 1
    /\ UNCHANGED <<inbox, outbox>>

SoloSpec == SoloInit /\ [][SoloTick]_vars

\* handleCollisions(gameState) called on the state as it is
CollisionPass ==
    /\ hist.op = "init"
    /\ \E g \in {[player |-> player, monsters |-> monsters, bullets |-> bullets]} :
         \E r \in {handleCollisions(g)} :
           /\ player' = r.player
           /\ monsters' = r.monsters
           /\ bullets' = r.bullets
           /\ hist' = [hist EXCEPT !.op = "collided", !.pre = g, !.post = r]
    /\ UNCHANGED <<spawner, gs, now, ticks, inbox, outbox>>

\* cleanupEntities(gameState) after it
CleanupPass ==
    /\ hist.op = "collided"
    /\ bullets' = ActiveOnly(bullets)
    /\ hist' = [hist EXCEPT !.op = "cleaned"]
    /\ UNCHANGED <<player, monsters, spawner, gs, now, ticks, inbox, outbox>>

CollisionNext == CollisionPass \/ CleanupPass

CollisionSpec == SoloInit /\ [][CollisionNext]_vars

\* resolveCollision on its own.  Lengths are in units of 1/120 pixel here,
\* so that the halves, quarters and eighths of a pixel the function
\* produces from these inputs are numbers of the model; the second circle
\* lies at an offset from the first whose length is a whole number of
\* pixels (0, 20, 30, 35 or 40).
Unit == 120
PairOffsets == {<<0, 0>>, <<20, 0>>, <<0, -20>>, <<12, 16>>, <<-18, -24>>,
                <<30, 0>>, <<35, 0>>, <<24, 32>>}
PairRadii == {<<15, 15>>, <<20, 15>>, <<15, 20>>}
PairMasses == {<<1, 1>>, <<3, 1>>, <<1, 3>>, <<6, 2>>}
NudgeAngles == {[cos |-> 1, sin |-> 0, den |-> 1], [cos |-> 0, sin |-> -1, den |-> 1],
                [cos |-> -3, sin |-> 4, den |-> 5]}

Circle(x, y, radius, mass) == [x |-> x, y |-> y, radius |-> radius, mass |-> mass]

PairInit ==
    /\ \E off \in PairOffsets, rr \in PairRadii, mm \in PairMasses :
         monsters = <<Circle(100 * Unit, 100 * Unit, rr[1] * Unit, mm[1]),
                      Circle((100 + off[1]) * Unit, (100 + off[2]) * Unit, rr[2] * Unit, mm[2])>>
    /\ player = Player(CanvasW \div 2, CanvasH \div 2)
    /\ bullets = <<>>
    /\ spawner = MonsterSpawner(0)
    /\ gs = [workerBusy |-> FALSE, isGameOver |-> FALSE, upgradePoints |-> 0,
             upgradeThreshold |-> UpgradeStep, collisionsProcessedByWorker |-> FALSE]
    /\ now = 1
    /\ ticks = 0
    /\ inbox = <<>>
    /\ outbox = <<>>
    /\ hist = [op |-> "init", pre |-> <<>>]

\* resolveCollision(circle1, circle2) of the collision utilities
ResolveSolo ==
    /\ hist.op = "init"
    /\ \E r \in {resolveCollision(monsters[1], monsters[2])} :
         /\ monsters' = r
         /\ hist' = [op |-> "utility", pre |-> monsters]
    /\ UNCHANGED <<player, bullets, spawner, gs, now, ticks, inbox, outbox>>

\* resolveCollision(circle1, circle2) of the grid worker
ResolveWorker ==
    /\ hist.op = "init"
    /\ \E angle \in NudgeAngles :
         \E r \in {resolveCollisionP000(monsters[1], monsters[2], angle)} :
           /\ monsters' = r
           /\ hist' = [op |-> "worker", pre |-> monsters]
    /\ UNCHANGED <<player, bullets, spawner, gs, now, ticks, inbox, outbox>>

PairNext == ResolveSolo \/ ResolveWorker

PairSpec == PairInit /\ [][PairNext]_vars

\* The grid worker at work: the coordinator that sends mass, damage and
\* isActive posts the snapshot of a state in the middle of a run, and the
\* worker answers it.  A layout lists the monsters as <<x, y, radius>>: the
\* spots around one bullet's path, pairs that overlap across cell borders
\* and at negative coordinates, a pair of the largest radius a cell takes,
\* a pair with one centre, and a pair that the player pushes onto one centre.
BulletLayouts ==
    {SubSeq(<<<<168, 100, 15>>, <<141, 115, 15>>, <<141, 85, 15>>>>, 1, k) : k \in 0..3}

GridLayouts ==
    {<<<<48, 160, 15>>, <<60, 160, 15>>>>,
     <<<<45, 45, 15>>, <<60, 60, 15>>, <<60, 45, 15>>>>,
     <<<<-5, -5, 15>>, <<10, 8, 15>>>>,
     <<<<-60, -60, 15>>, <<-45, -52, 15>>, <<-110, -60, 20>>>>,
     <<<<25, 25, 50>>, <<110, 25, 50>>>>}

SameCentreLayout == <<<<150, 160, 15>>, <<150, 160, 15>>>>

PushedTogetherLayout == <<<<121, 100, 25>>, <<123, 100, 25>>>>

MonsterLayouts ==
    BulletLayouts \cup GridLayouts \cup {SameCentreLayout, PushedTogetherLayout}

LayoutMonsters(layout) ==
    [i \in 1..Len(layout) |->
       [Monster(layout[i][1], layout[i][2], layout[i][3], 40, 55)
          EXCEPT !.uid = i, !.shootCooldown = MonsterShootInterval]]

RandomRuns == {<<a, b>> : a \in NudgeAngles, b \in {[cos |-> 0, sin |-> 1, den |-> 1]}}

\* a bullet sent as inactive is one that left the bounds in the frame of the
\* snapshot: the snapshot is taken before the frame's closing filter
GridInit ==
    /\ \E layout \in MonsterLayouts, x \in SoloBulletXs, owner \in BOOLEAN,
          pc \in SoloPierce, active \in BOOLEAN :
         /\ monsters = LayoutMonsters(layout)
         /\ bullets = <<[SoloBullet(x, owner, pc) EXCEPT !.isActive = active]>>
         /\ spawner = [MonsterSpawner(0) EXCEPT !.totalMonstersSpawned = Len(layout)]
    /\ player = Player(CanvasW \div 2, CanvasH \div 2)
    /\ gs = [workerBusy |-> FALSE, isGameOver |-> FALSE, upgradePoints |-> 0,
             upgradeThreshold |-> UpgradeStep, collisionsProcessedByWorker |-> FALSE]
    /\ now = 1
    /\ ticks = 0
    /\ inbox = <<>>
    /\ outbox = <<>>
    /\ hist = [op |-> "init", log |-> <<>>]

\* log: the requests handled so far, each with the reply to it and the
\* number of calls of Math.random() made for it
GridWorkerStep ==
    /\ inbox # <<>>
    /\ \E rnd \in RandomRuns :
         \E reply \in {onmessageP000(Head(inbox), rnd)} :
           /\ outbox' = Append(outbox, reply)
           /\ hist' = [op |-> "worker", rnd |-> rnd,
                       data |-> deserializeGameDataP000(Head(inbox).buffer),
                       results |-> processCollisionsP000(
                                      deserializeGameDataP000(Head(inbox).buffer), rnd),
                       log |-> Append(hist.log,
                                      [buffer |-> Head(inbox).buffer, reply |-> reply,
                                       nudges |-> processCollisionsP000(
                                          deserializeGameDataP000(Head(inbox).buffer), rnd).nudges])]
    /\ inbox' = Tail(inbox)
    /\ UNCHANGED <<player, monsters, bullets, spawner, gs, now, ticks>>

GridNext == PostSnapshot \/ GridWorkerStep

GridSpec == GridInit /\ [][GridNext]_vars

\* The scheduling of workerGameLoop.  workerGameState carries limitFrameRate,
\* animationFrameId and timeoutId next to its other scalars; pendingTimeouts
\* and pendingFrames are the handles of the callbacks the browser holds for
\* setTimeout and requestAnimationFrame, nextHandle the next handle it gives
\* (handles are positive; 0 stands for null).
MaxToggles == 2

\* the closing lines of workerGameLoop: the next run is asked for
ScheduleNext(g) ==
    IF g.limitFrameRate
    THEN [g EXCEPT !.animationFrameId = g.nextHandle,
                   !.pendingFrames = @ \cup {g.nextHandle},
                   !.nextHandle = @ + 1]
    ELSE [g EXCEPT !.timeoutId = g.nextHandle,
                   !.pendingTimeouts = @ \cup {g.nextHandle},
                   !.nextHandle = @ + 1]

\* toggleWorkerFrameRateLimit()
toggleWorkerFrameRateLimit(g) ==
    IF ~g.limitFrameRate
    THEN [g EXCEPT !.limitFrameRate = TRUE,
                   !.pendingFrames = (@ \ {g.animationFrameId}) \cup {g.nextHandle},
                   !.animationFrameId = g.nextHandle,
                   !.nextHandle = @ + 1]
    ELSE [g EXCEPT !.limitFrameRate = FALSE]

\* initWorkerGame() has returned: its call of workerGameLoop has left the
\* loop's first continuation, a timeout, with the browser
LoopInit ==
    /\ player = Player(CanvasW \div 2, CanvasH \div 2)
    /\ monsters = <<>>
    /\ bullets = <<>>
    /\ spawner = MonsterSpawner(0)
    /\ gs = [workerBusy |-> FALSE, isGameOver |-> FALSE, upgradePoints |-> 0,
             upgradeThreshold |-> UpgradeStep, collisionsProcessedByWorker |-> FALSE,
             limitFrameRate |-> FALSE, animationFrameId |-> 0, timeoutId |-> 1,
             pendingTimeouts |-> {1}, pendingFrames |-> {}, nextHandle |-> 2]
    /\ now = 0
    /\ ticks = 0
    /\ inbox = <<>>
    /\ outbox = <<>>
    /\ hist = [op |-> "init", nextUid |-> 1, nSent |-> 0, nHandled |-> 0, nApplied |-> 0,
               nErrors |-> 0, nForeign |-> 0, merge |-> NoMerge, spent |-> {}, live |-> <<>>,
               nToggles |-> 0]

\* the browser runs a callback it holds: one run of workerGameLoop, the
\* frame of the game and then the request for the next run.  pending names
\* the list the callback is taken from
LoopRuns(pending) ==
    /\ ticks < MaxTicks
    /\ ~gs.isGameOver
    /\ \E handle \in gs[pending], dt \in SteadyDtSet, step \in ClockSteps :
         \E rnd \in [1..BatchSize(spawner, dt, monsters) -> SpawnChoices] :
           LET in == [dt |-> dt, intent |-> <<0, 0>>, clock |-> now + step, rnd |-> rnd]
           IN \E r \in {updateWorkerGame(St, in, hist.nextUid, ticks + 1)} :
              /\ player' = r.player
              /\ monsters' = r.monsters
              /\ bullets' = r.bullets
              /\ spawner' = r.spawner
              /\ gs' = ScheduleNext([r.gs EXCEPT ![pending] = @ \ {handle}])
              /\ now' = now + step
              /\ ticks' = ticks + 1
              /\ inbox' = IF r.post = NoMsg THEN inbox ELSE Append(inbox, r.post)
              /\ hist' = [hist EXCEPT
                            !.op = "tick", !.merge = NoMerge,
                            !.spent = {r.moved[i].uid : i \in {k \in 1..Len(r.moved) :
                                                                 ~r.moved[k].isActive}},
                            !.live = Uids(SelectSeq(r.moved, StillActive)),
                            !.nextUid = @ + r.created,
                            !.nSent = IF r.post = NoMsg THEN @ ELSE @ + 1]
    /\ UNCHANGED outbox

TimeoutFires == LoopRuns("pendingTimeouts")

AnimationFrameFires == LoopRuns("pendingFrames")

\* the user presses 'f': workerEventHandlers.keydown
ToggleKey ==
    /\ hist.nToggles < MaxToggles
    /\ gs' = IF gs.isGameOver THEN gs ELSE toggleWorkerFrameRateLimit(gs)
    /\ hist' = [hist EXCEPT !.op = "key", !.merge = NoMerge, !.spent = {}, !.live = <<>>,
                            !.nToggles = @ + 1]
    /\ UNCHANGED <<player, monsters, bullets, spawner, now, ticks, inbox, outbox>>

LoopNext == TimeoutFires \/ AnimationFrameFires \/ ToggleKey \/ WorkerStep \/ MainReceive

LoopSpec == LoopInit /\ [][LoopNext]_vars

\* The upgrade key.  The game is taken up in the middle of a run: every
\* point granted raised the threshold by one step, and was either kept or
\* spent on a level.
MaxPoints == 2

UpgradeLevels == {MaxBulletLevel - 1, MaxBulletLevel}

\* the score, counted from the threshold
UpgradeScoreOffsets == {-ScorePerHit, UpgradeStep}

\* Player.upgradeBullet(): <<the player after the call, the value returned>>
Player_upgradeBullet(p) ==
    IF p.bulletLevel < MaxBulletLevel
    THEN <<[p EXCEPT !.bulletLevel = @ + 1], TRUE>>
    ELSE <<p, FALSE>>

\* a handler that upgrades without asking for a point
keydownUpgrade_NoPointNeeded(st) ==
    IF st.gs.isGameOver THEN st
    ELSE With(Player_upgradeBullet(st.player), LAMBDA r :
           IF r[2]
           THEN [st EXCEPT !.player = r[1], !.gs.upgradePoints = @ - 1]
           ELSE [st EXCEPT !.player = r[1]])

\* workerEventHandlers.keydown(e) for e.key 'u' or 'U'
keydownUpgrade(st) ==
    IF st.gs.isGameOver THEN st
    ELSE IF st.gs.upgradePoints > 0
         THEN With(Player_upgradeBullet(st.player), LAMBDA r :
                IF r[2]
                THEN [st EXCEPT !.player = r[1], !.gs.upgradePoints = @ - 1]
                ELSE [st EXCEPT !.player = r[1]])
         ELSE st

UpgradeInit ==
    /\ \E level \in UpgradeLevels, points \in 0..MaxPoints, off \in UpgradeScoreOffsets :
         /\ player = [Player(CanvasW \div 2, CanvasH \div 2)
                        EXCEPT !.bulletLevel = level,
                               !.score = UpgradeStep * (level + points) + off]
         /\ gs = [workerBusy |-> FALSE, isGameOver |-> FALSE, upgradePoints |-> points,
                  upgradeThreshold |-> UpgradeStep * (level + points),
                  collisionsProcessedByWorker |-> FALSE]
    /\ monsters = <<>>
    /\ bullets = <<>>
    /\ spawner = MonsterSpawner(0)
    /\ now = 0
    /\ ticks = 0
    /\ inbox = <<>>
    /\ outbox = <<>>
    /\ hist = [op |-> "init", nextUid |-> 1, nSent |-> 0, nHandled |-> 0, nApplied |-> 0,
               nErrors |-> 0, nForeign |-> 0, merge |-> NoMerge, spent |-> {}, live |-> <<>>]

\* the user presses 'u'
UpgradeKey ==
    /\ \E r \in {keydownUpgrade(St)} :
         /\ player' = r.player
         /\ gs' = r.gs
    /\ hist' = [hist EXCEPT !.op = "key", !.merge = NoMerge, !.spent = {}, !.live = <<>>]
    /\ UNCHANGED <<monsters, bullets, spawner, now, ticks, inbox, outbox>>

UpgradeNext == SteadyTick \/ WorkerStep \/ MainReceive \/ UpgradeKey

UpgradeSpec == UpgradeInit /\ [][UpgradeNext]_vars

\* The grid worker over several requests.  Requests arrive one after another
\* with snapshots drawn from a few layouts; the worker answers them in order.
MaxRequests == 3

ArrivingLayouts ==
    {PushedTogetherLayout, SameCentreLayout,
     <<<<48, 160, 15>>, <<60, 160, 15>>>>,
     <<<<168, 100, 15>>, <<141, 115, 15>>>>}

WorkerInit ==
    /\ player = Player(CanvasW \div 2, CanvasH \div 2)
    /\ monsters = <<>>
    /\ bullets = <<SoloBullet(150, TRUE, <<0, 2>>)>>
    /\ spawner = MonsterSpawner(0)
    /\ gs = [workerBusy |-> FALSE, isGameOver |-> FALSE, upgradePoints |-> 0,
             upgradeThreshold |-> UpgradeStep, collisionsProcessedByWorker |-> FALSE]
    /\ now = 1
    /\ ticks = 0
    /\ inbox = <<>>
    /\ outbox = <<>>
    /\ hist = [op |-> "init", log |-> <<>>]

\* a processCollisions message reaches the worker's queue
RequestArrives ==
    /\ ticks < MaxRequests
    /\ \E layout \in ArrivingLayouts :
         inbox' = Append(inbox,
                    [type |-> "processCollisions",
                     buffer |-> serializeGameData(collisionData(
                                   [St EXCEPT !.monsters = LayoutMonsters(layout)]))])
    /\ ticks' = ticks + 1
    /\ UNCHANGED <<player, monsters, bullets, spawner, gs, now, outbox, hist>>

WorkerNext == RequestArrives \/ GridWorkerStep

WorkerSpec == WorkerInit /\ [][WorkerNext]_vars

\* The page runs one of the two games: the worker variant from its start,
\* or the single-threaded game (taken up in the middle of a run).
IsSolo == "pre" \in DOMAIN hist

EitherInit == Init \/ SoloInit

EitherNext == (IsSolo /\ SoloTick) \/ (~IsSolo /\ Next)

EitherSpec == EitherInit /\ [][EitherNext]_vars

\* Either game with the player at the border of the playfield, where the
\* keys have taken it, and a monster that has come up to it from within.
\* EdgeGaps are the distances of the monster's centre from the player's.
EdgeSpots == {<<PlayerRadius, CanvasH \div 2>>, <<CanvasW - PlayerRadius, CanvasH - PlayerRadius>>}

EdgeGaps == {25, 30, 40}

EdgeInit ==
    /\ \E spot \in EdgeSpots, gap \in EdgeGaps :
         /\ player = Player(spot[1], spot[2])
         /\ monsters = <<[Monster(IF spot[1] < CanvasW \div 2 THEN spot[1] + gap
                                   ELSE spot[1] - gap, spot[2], 15, 40, 55)
                            EXCEPT !.uid = 1, !.shootCooldown = MonsterShootInterval]>>
    /\ bullets = <<>>
    /\ spawner = [MonsterSpawner(0) EXCEPT !.totalMonstersSpawned = 1]
    /\ gs = [workerBusy |-> FALSE, isGameOver |-> FALSE, upgradePoints |-> 0,
             upgradeThreshold |-> UpgradeStep, collisionsProcessedByWorker |-> FALSE]
    /\ now = 1
    /\ ticks = 0
    /\ inbox = <<>>
    /\ outbox = <<>>
    /\ \/ hist = [op |-> "init", nextUid |-> 11, pre |-> NoPass, post |-> NoPass]
       \/ hist = [op |-> "init", nextUid |-> 11, nSent |-> 0, nHandled |-> 0, nApplied |-> 0,
                  nErrors |-> 0, nForeign |-> 0, merge |-> NoMerge, spent |-> {},
                  live |-> <<>>]

EdgeSpec == EdgeInit /\ [][EitherNext]_vars

\* the steps of Next told apart by what they do to the frame counter and the
\* two queues: a frame, a worker step, a delivery to the main context
FrameStep == ticks < MaxTicks /\ ~gs.isGameOver /\ ticks' = ticks + 1

WorkerTurn == inbox # <<>> /\ inbox' = Tail(inbox)

DeliveryTurn == outbox # <<>> /\ outbox' = Tail(outbox)

\* requestAnimationFrame keeps scheduling frames, and each context's event
\* loop runs the handler of every message queued for it
LiveSpec ==
    /\ Init
    /\ [][Next]_vars
    /\ WF_ticks(FrameStep)
    /\ WF_inbox(WorkerTurn)
    /\ WF_outbox(DeliveryTurn)

----------------------------------------------------------------------------
(* Properties of the busy-flag protocol *)

IsResultsDelivery == DeliveryTurn /\ Head(outbox).type = "collisionResults"

IsErrorDelivery == DeliveryTurn /\ Head(outbox).type = "error"

\* the collision messages between the two contexts: requests not yet
\* processed and replies not yet handled (the worker processes a request and
\* posts its reply in one step of its event loop)
Outstanding == Len(inbox) + Len(outbox)

\* C1: at most one collision message is outstanding at every moment, and a
\* frame that runs while workerBusy is true sends nothing
C1_AtMostOneOutstanding ==
    [][/\ Outstanding <= 1
       /\ Outstanding' <= 1
       /\ (FrameStep /\ gs.workerBusy) => (inbox' = inbox /\ hist'.nSent = hist.nSent)]_vars

\* a second frame has run while the first request was still unanswered
C1_Witness ==
    /\ hist.op = "tick"
    /\ ticks >= 2
    /\ hist.nSent = 1
    /\ hist.nApplied = 0
    /\ gs.workerBusy
    /\ Outstanding = 1

\* C2: handling a collisionResults reply applies the decoded result once
\* (player position taken from it, its score added, the reply consumed) and
\* clears workerBusy, whatever the number of frames since the request; a frame
\* that then runs with workerBusy false sends a new snapshot and sets the flag
C2_MergeThenIdleThenSend ==
    [][/\ IsResultsDelivery =>
            LET results == deserializeResults(Head(outbox).buffer)
            IN /\ player'.x = results.player.x
               /\ player'.y = results.player.y
               /\ player'.score = Add(player.score, results.score)
               /\ hist'.nApplied = hist.nApplied + 1
               /\ ~gs'.workerBusy
               /\ gs'.collisionsProcessedByWorker
       /\ hist.nApplied + Len(outbox) = hist.nHandled
       /\ (FrameStep /\ ~gs.workerBusy) =>
            /\ Len(inbox') = Len(inbox) + 1
            /\ inbox'[Len(inbox')].type = "processCollisions"
            /\ inbox'[Len(inbox')].ghost.sentTick = ticks'
            /\ gs'.workerBusy]_vars

\* the first request was answered after two further frames, its result was
\* merged, and the next frame has just sent the second request
C2_Witness ==
    /\ hist.op = "tick"
    /\ hist.nApplied = 1
    /\ hist.nSent = 2
    /\ ticks = 4
    /\ gs.workerBusy
    /\ Len(inbox) = 1
    /\ inbox[1].ghost.sentTick = ticks

\* C3: handling an error reply clears workerBusy and changes nothing else:
\* player, monsters, bullets (isActive and pierce counts included), score,
\* spawner and the other flags are what they were
C3_ErrorOnlyClearsBusy ==
    [][IsErrorDelivery =>
          /\ ~gs'.workerBusy
          /\ gs' = [gs EXCEPT !.workerBusy = FALSE]
          /\ player' = player
          /\ monsters' = monsters
          /\ bullets' = bullets
          /\ spawner' = spawner
          /\ UNCHANGED <<now, ticks, inbox>>]_vars

\* an error reply has been handled while the game held monsters and bullets
\* and a request was still unanswered
C3_Witness ==
    /\ hist.op = "error"
    /\ ~gs.workerBusy
    /\ monsters # <<>>
    /\ bullets # <<>>
    /\ Outstanding = 1

\* C4: for a message of any type but 'processCollisions' the worker posts
\* one reply, of type 'error', whose text names the type received; it posts
\* a collisionResults reply only for a processCollisions request, and it does
\* so for every such request, earlier errors or not
C4_UnknownTypeGetsError ==
    [][WorkerTurn =>
          /\ Len(outbox') = Len(outbox) + 1
          /\ SubSeq(outbox', 1, Len(outbox)) = outbox
          /\ LET message == Head(inbox)
                 reply == outbox'[Len(outbox')]
             IN IF message.type = "processCollisions"
                THEN /\ reply.type = "collisionResults"
                     /\ reply.ghost.sentTick = message.ghost.sentTick
                ELSE /\ reply.type = "error"
                     /\ reply.error = <<"Unknown message type: ", message.type>>]_vars

\* the worker has answered a request after the error reply to an earlier
\* message of another type was already handled by the main context
C4_Witness ==
    /\ hist.op = "worker"
    /\ hist.nErrors = 1
    /\ outbox # <<>>
    /\ outbox[Len(outbox)].type = "collisionResults"

\* C5: with frames, worker steps and deliveries all kept up, within the
\* MaxTicks frames of a run every request is processed by the worker and its
\* one reply is merged, workerBusy is cleared again after each time it is
\* set, and whenever the flag is clear and a frame is left a further
\* snapshot is sent
C5_RequestsAnsweredAndResent ==
    /\ [](hist.nHandled + Len(inbox) = hist.nSent /\ hist.nApplied + Len(outbox) = hist.nHandled)
    /\ \A n \in 1..MaxTicks : (hist.nSent = n) ~> (hist.nHandled = n /\ hist.nApplied = n)
    /\ gs.workerBusy ~> ~gs.workerBusy
    /\ \A n \in 0..(MaxTicks - 1) :
         (~gs.workerBusy /\ ticks < MaxTicks /\ hist.nSent = n) ~> (hist.nSent = n + 1)

\* a second request has been sent after the first was answered and merged
C5_Witness ==
    /\ hist.nSent = 2
    /\ hist.nApplied = 1
    /\ hist.nHandled = 1
    /\ gs.workerBusy
    /\ Len(inbox) = 1

\* C6: there is no timeout: as long as no reply is delivered, workerBusy
\* stays true and no request is sent, while the one condition that stops the
\* frames of the game loop (isGameOver) stays false
C6_NoTimeout ==
    [][(gs.workerBusy /\ ~DeliveryTurn) =>
          /\ gs'.workerBusy
          /\ hist'.nSent = hist.nSent
          /\ inbox' = inbox \/ WorkerTurn
          /\ ~gs'.isGameOver]_vars

\* every frame of the run has passed with the first request unanswered
C6_Witness ==
    /\ hist.op = "tick"
    /\ ticks = MaxTicks
    /\ hist.nSent = 1
    /\ hist.nApplied = 0
    /\ gs.workerBusy
    /\ Len(bullets) > 0

\* C7: the frame update is never switched off (isGameOver stays false, the
\* one condition under which a frame skips updateWorkerGame), and in every
\* reachable state, for every input of a frame, updateWorkerGame run with
\* workerBusy true leaves the same player, monsters, bullets, spawner,
\* upgrade state and created entities as run with workerBusy false; only the
\* run with the flag false posts a snapshot
C7_BusyFrameSameUpdates ==
    /\ ~gs.isGameOver
    /\ \A dt \in DtSet, intent \in Intents, step \in ClockSteps :
         \A rnd \in [1..BatchSize(spawner, dt, monsters) -> SpawnChoices] :
           LET in == [dt |-> dt, intent |-> intent, clock |-> now + step, rnd |-> rnd]
           IN \E a \in {updateWorkerGame([St EXCEPT !.gs.workerBusy = TRUE],
                                         in, hist.nextUid, ticks + 1)},
                 b \in {updateWorkerGame([St EXCEPT !.gs.workerBusy = FALSE],
                                         in, hist.nextUid, ticks + 1)} :
                /\ a.player = b.player
                /\ a.monsters = b.monsters
                /\ a.bullets = b.bullets
                /\ a.spawner = b.spawner
                /\ a.created = b.created
                /\ [a.gs EXCEPT !.workerBusy = TRUE] = [b.gs EXCEPT !.workerBusy = TRUE]
                /\ a.gs.workerBusy
                /\ a.post = NoMsg
                /\ b.post.type = "processCollisions"

\* the messages between the two contexts
InFlight == {inbox[i] : i \in 1..Len(inbox)} \cup {outbox[i] : i \in 1..Len(outbox)}

\* a frame that ran while the first request was unanswered has spawned a
\* monster and fired a bullet that the request's snapshot does not hold
C7_Witness ==
    /\ hist.op = "tick"
    /\ gs.workerBusy
    /\ hist.nSent = 1
    /\ ticks >= 2
    /\ \E m \in InFlight :
         /\ m.type \in {"processCollisions", "collisionResults"}
         /\ Len(monsters) > Len(m.ghost.monsterUids)
         /\ \E k \in 1..Len(bullets) :
              \A j \in 1..Len(m.ghost.bulletUids) : m.ghost.bulletUids[j] # bullets[k].uid

Range(seq) == {seq[i] : i \in 1..Len(seq)}

\* C8: merging a result, however many frames after its snapshot, keeps both
\* lists as long as they were with the same entities at the same places,
\* changes no monster and no bullet that the snapshot did not hold, and
\* changes a bullet only if an update of the result was computed from that
\* bullet, so an update whose bullet has been pruned changes nothing
C8_StaleMergeTouchesOnlySnapshotEntities ==
    [][IsResultsDelivery =>
          LET ghost == Head(outbox).ghost
          IN /\ Uids(monsters') = Uids(monsters)
             /\ Uids(bullets') = Uids(bullets)
             /\ \A i \in 1..Len(monsters) :
                  monsters[i].uid \notin Range(ghost.monsterUids) => monsters'[i] = monsters[i]
             /\ \A k \in 1..Len(bullets) :
                  bullets[k].uid \notin Range(ghost.bulletUids) => bullets'[k] = bullets[k]
             /\ \A k \in 1..Len(bullets) :
                  bullets'[k] # bullets[k] => bullets[k].uid \in Range(UpdateSources(ghost))]_vars

\* a result has been merged at least one frame after its snapshot, when a
\* bullet it updates had been pruned and monsters and bullets had been
\* created since
C8_Witness ==
    /\ hist.op = "merge"
    /\ hist.merge.lag >= 1
    /\ hist.merge.pruned > 0
    /\ hist.merge.newMonsters > 0
    /\ hist.merge.newBullets > 0

\* C9: every step keeps the monsters it finds, in their order, at the front
\* of the list; a result holds one monster record per snapshot record, the
\* i-th computed from the i-th; and when it is merged the monster at index i
\* is the monster of snapshot record i and takes the position of result
\* record i
C9_MonsterIndexCorrespondence ==
    [][/\ Len(monsters') >= Len(monsters)
       /\ SubSeq(Uids(monsters'), 1, Len(monsters)) = Uids(monsters)
       /\ IsResultsDelivery =>
            LET ghost == Head(outbox).ghost
                results == deserializeResults(Head(outbox).buffer)
            IN /\ Len(results.monsters) = Len(ghost.monsterUids)
               /\ ghost.order = [i \in 1..Len(ghost.monsterUids) |-> i - 1]
               /\ \A i \in 1..Len(results.monsters) :
                    /\ i <= Len(monsters)
                    /\ monsters[i].uid = ghost.monsterUids[i]
                    /\ monsters'[i].x = results.monsters[i].x
                    /\ monsters'[i].y = results.monsters[i].y]_vars

\* a result for a snapshot of at least one monster has been merged after
\* further monsters were spawned
C9_Witness ==
    /\ hist.op = "merge"
    /\ Len(hist.merge.snapMonsters) >= 1
    /\ hist.merge.newMonsters >= 1
    /\ Len(hist.merge.results.monsters) = Len(hist.merge.snapMonsters)

\* the last update of a result that was computed from the bullet with this uid
LastUpdateOf(sources, uid) ==
    CHOOSE i \in 1..Len(sources) :
       sources[i] = uid /\ \A j \in (i + 1)..Len(sources) : sources[j] # uid

\* C10: after a merge, every bullet of the list from which an update of the
\* merged result was computed has the isActive flag and the
\* currentPierceCount that its (last) update carries
C10_BulletUpdatesApplied ==
    hist.op = "merge" =>
       \A k \in 1..Len(bullets) :
          bullets[k].uid \in Range(hist.merge.sources) =>
             LET update == hist.merge.results.bullets[LastUpdateOf(hist.merge.sources,
                                                                   bullets[k].uid)]
             IN /\ bullets[k].isActive = update.isActive
                /\ bullets[k].currentPierceCount = update.currentPierceCount

\* a merged result carried an update for a bullet that is still in the list
C10_Witness ==
    /\ hist.op = "merge"
    /\ \E k \in 1..Len(bullets) : bullets[k].uid \in Range(hist.merge.sources)

----------------------------------------------------------------------------
(* Properties of entity identity *)

Ids(es) == [i \in 1..Len(es) |-> es[i].id]

Distinct(seq) == \A i, j \in 1..Len(seq) : i # j => seq[i] # seq[j]

\* the entity keeps the id it has: es and es2 are a list before and after a step
IdsStable(es, es2) ==
    \A i \in 1..Len(es), j \in 1..Len(es2) : es[i].uid = es2[j].uid => es[i].id = es2[j].id

\* C11: after every step the bullets of the list have pairwise distinct ids,
\* the monsters have pairwise distinct ids, and every entity that stays in
\* its list keeps the id it had, for clock readings that never go backwards
C11_IdsDistinctAndStable ==
    [][/\ Distinct(Ids(bullets'))
       /\ Distinct(Ids(monsters'))
       /\ bullets' # <<>> => \A k \in 1..Len(bullets') : bullets'[k].id # NoId
       /\ IdsStable(bullets, bullets')
       /\ IdsStable(monsters, monsters')
       /\ now' >= now]_vars

\* a frame has pruned a bullet and named a new one while the clock read what
\* it read in the frame before
C11_Witness ==
    /\ hist.op = "tick"
    /\ ticks >= 3
    /\ \E k \in 1..Len(bullets) :
         /\ bullets[k].id[3] = now
         /\ bullets[k].id[2] >= Len(bullets)
         /\ \E l \in 1..Len(bullets) : bullets[l].id[3] < now

----------------------------------------------------------------------------
(* Properties of the request codec *)

\* the record the decoder returns for a monster / a bullet whose number
\* fields are the given function of the fields sent
MonsterAsRead(m, F(_)) ==
    [x |-> F(m.x), y |-> F(m.y), radius |-> F(m.radius), mass |-> F(MassOr1(m))]

BulletAsRead(b, F(_)) ==
    [x |-> F(b.x), y |-> F(b.y), radius |-> F(b.radius),
     isPlayerBullet |-> b.isPlayerBullet, damage |-> F(b.damage),
     currentPierceCount |-> F(b.currentPierceCount),
     maxPierceCount |-> F(b.maxPierceCount), isActive |-> b.isActive]

WireFieldsOfMonster(m) == [x |-> m.x, y |-> m.y, radius |-> m.radius, mass |-> m.mass]

WireFieldsOfBullet(b) ==
    [x |-> b.x, y |-> b.y, radius |-> b.radius, isPlayerBullet |-> b.isPlayerBullet,
     damage |-> b.damage, currentPierceCount |-> b.currentPierceCount,
     maxPierceCount |-> b.maxPierceCount, isActive |-> b.isActive]

\* the decoded snapshot holds the player, the N monsters and the M bullets of
\* the state in their order, each number field being F of the field sent
DecodedAs(F(_)) ==
    /\ WireFieldsOfMonster(hist.data.player) = MonsterAsRead(player, F)
    /\ Len(hist.data.monsters) = Len(monsters)
    /\ Len(hist.data.bullets) = Len(bullets)
    /\ \A i \in 1..Len(monsters) :
         WireFieldsOfMonster(hist.data.monsters[i]) = MonsterAsRead(monsters[i], F)
    /\ \A i \in 1..Len(bullets) :
         WireFieldsOfBullet(hist.data.bullets[i]) = BulletAsRead(bullets[i], F)

Same(v) == v

\* C12 as stated: deserializeGameData of the buffer serializeGameData wrote
\* returns the same player x, y, radius and mass, the same monsters in the
\* same order with the same x, y, radius and mass, and the same bullets in
\* the same order with the same eight fields
C12_RoundTripIdentity == hist.op = "decoded" => DecodedAs(Same)

\* C12 as amended: the round trip returns the monsters and bullets in their
\* order and number, every number field as the nearest float32 of the field
\* sent (mass as 1 where it is 0 or missing), the two flags unchanged
C12_RoundTripToFloat32 == hist.op = "decoded" => DecodedAs(Fround)

\* a snapshot of more than 100 monsters and more than 100 bullets, with a
\* coordinate that is not a float32, has been decoded
C12_Witness ==
    /\ hist.op = "decoded"
    /\ Len(hist.data.monsters) > 100
    /\ Len(hist.data.bullets) > 100
    /\ \E i \in 1..Len(monsters) : Fround(monsters[i].x) # monsters[i].x

----------------------------------------------------------------------------
(* Properties of the request buffer *)

Requests == {m \in Range(inbox) : m.type = "processCollisions"}

\* C13: in every request the coordinator has sent, the monster count field is
\* the number of monster records written and the bullet count field the
\* number of bullet records written, so that the worker's decoder returns one
\* entity per record written and reads nothing beyond the floats written
C13_CountsMatchRecords ==
    \A m \in Requests :
       LET data == deserializeGameData(m.buffer)
       IN /\ ViewAt(m.buffer, 3) = Len(m.ghost.monsterUids)
          /\ Len(data.monsters) = Len(m.ghost.monsterUids)
          /\ Len(data.bullets) = Len(m.ghost.bulletUids)
          /\ 5 + 3 * Len(data.monsters) + 6 * Len(data.bullets) = m.bufferSize

\* a request with monster and bullet records is on its way to the worker
C13_Witness ==
    \E m \in Requests :
       /\ Len(m.ghost.monsterUids) >= 1
       /\ Len(m.ghost.bulletUids) >= 1
       /\ Len(deserializeGameData(m.buffer).bullets) = Len(m.ghost.bulletUids)

\* C14: the buffer allocated for a request has room for every float the
\* send block writes: its capacity in floats is at least the number written
\* (3 player fields, 2 count fields, 3 per monster record, 6 per bullet record)
C14_BufferHoldsPayload ==
    \A m \in Requests :
       /\ m.bufferSize = 5 + 3 * Len(m.ghost.monsterUids) + 6 * Len(m.ghost.bulletUids)
       /\ m.buffer.cap >= m.bufferSize
       /\ Len(m.buffer.data) = m.bufferSize

\* a request for a frame of more than 84 monsters and some bullets has been
\* written
C14_Witness ==
    \E m \in Requests :
       /\ Len(m.ghost.monsterUids) > 84
       /\ Len(m.ghost.bulletUids) >= 1
       /\ m.buffer.cap * 4 > MinBufferBytes

----------------------------------------------------------------------------
(* Properties of the spawner *)

\* C15: after every spawner update the monster list is no longer than the
\* current maxMonstersOnScreen, and totalMonstersSpawned is no greater than
\* maxTotalMonsters
C15_SpawnerCaps ==
    /\ Len(monsters) <= spawner.maxMonstersOnScreen
    /\ spawner.totalMonstersSpawned <= spawner.maxTotalMonsters

\* an update has run with the list at the on-screen cap, after the cap was
\* changed by a difficulty increase and after an update spawned less than
\* the batch size for the room left on screen
C15_Witness ==
    /\ hist.op = "spawn"
    /\ Len(monsters) = spawner.maxMonstersOnScreen
    /\ spawner.difficulty > 1
    /\ hist.spawned = 0
    /\ Len(monsters) = hist.before.maxMonstersOnScreen

\* C16: from the initial settings, ticked 60 times per second, the spawner
\* has spawned maxTotalMonsters (500) monsters when 10 seconds of ticks have
\* passed, and spawnComplete is true in every later update
C16_AllSpawnedInTenSeconds ==
    /\ ticks >= SixtyHzFrames => spawner.totalMonstersSpawned = MaxTotalMonsters
    /\ ticks > SixtyHzFrames => spawner.spawnComplete

\* ten seconds of ticks at 60 per second have passed
C16_Witness ==
    /\ ticks = SixtyHzFrames
    /\ now = TargetSpawnTime
    /\ hist.op = "spawn"
    /\ spawner.totalMonstersSpawned > 0

\* C17: spawnComplete, once true, stays true; spawnDuration changes only in
\* the step that makes spawnComplete true, where it is set to the time since
\* spawnStartTime; and an update that finds totalMonstersSpawned at
\* maxTotalMonsters spawns nothing
C17_CompletionRecordedOnce ==
    [][/\ spawner.spawnComplete => spawner'.spawnComplete
       /\ spawner'.spawnDuration # spawner.spawnDuration =>
             /\ ~spawner.spawnComplete
             /\ spawner'.spawnComplete
       /\ (~spawner.spawnComplete /\ spawner'.spawnComplete) =>
             /\ spawner'.spawnDuration = now' - spawner.spawnStartTime
             /\ spawner.totalMonstersSpawned >= spawner.maxTotalMonsters
       /\ spawner.totalMonstersSpawned >= spawner.maxTotalMonsters =>
             /\ Len(monsters') = Len(monsters)
             /\ spawner'.totalMonstersSpawned = spawner.totalMonstersSpawned]_vars

\* a frame has run its spawner update after the one that recorded the
\* duration, at a later clock reading
C17_Witness ==
    /\ hist.op = "tick"
    /\ spawner.spawnComplete
    /\ spawner.totalMonstersSpawned = spawner.maxTotalMonsters
    /\ spawner.spawnDuration > 0
    /\ now - spawner.spawnStartTime > spawner.spawnDuration

\* C18: every difficulty increase leaves the spawn interval no longer than
\* it was and not below its floor, the batch size no smaller than it was and
\* not above its ceiling, and the on-screen cap no lower than it was and not
\* above its ceiling
C18_DifficultyMonotonic ==
    [][spawner'.difficulty # spawner.difficulty =>
          /\ spawner'.difficulty = spawner.difficulty + 1
          /\ spawner'.spawnInterval <= spawner.spawnInterval
          /\ spawner'.spawnInterval >= SpawnIntervalFloor
          /\ spawner'.spawnBatchSize >= spawner.spawnBatchSize
          /\ spawner'.spawnBatchSize <= BatchSizeCeil
          /\ spawner'.maxMonstersOnScreen >= spawner.maxMonstersOnScreen
          /\ spawner'.maxMonstersOnScreen <= MaxOnScreenCeil]_vars

\* the difficulty has been increased several times
C18_Witness ==
    /\ hist.op = "spawn"
    /\ spawner.difficulty >= 3
    /\ hist.before.difficulty < spawner.difficulty

----------------------------------------------------------------------------
(* Properties of bullet piercing in the single-threaded game *)

\* the bullet with this creation serial in a list
WithUid(bs, uid) == {i \in 1..Len(bs) : bs[i].uid = uid}

\* C19: from one frame of the single-threaded game to the next no bullet's
\* currentPierceCount decreases, and a bullet whose count exceeds its
\* maxPierceCount when the frame's collision pass is done is inactive then,
\* so that no bullet of the list is beyond its limit after the frame
C19_PierceMonotoneThenSpent ==
    [][/\ \A i \in 1..Len(bullets) :
            /\ \A j \in WithUid(hist'.post.bullets, bullets[i].uid) :
                  hist'.post.bullets[j].currentPierceCount >= bullets[i].currentPierceCount
            /\ \A j \in WithUid(bullets', bullets[i].uid) :
                  bullets'[j].currentPierceCount >= bullets[i].currentPierceCount
       /\ \A j \in 1..Len(hist'.post.bullets) :
            hist'.post.bullets[j].currentPierceCount > hist'.post.bullets[j].maxPierceCount
               => ~hist'.post.bullets[j].isActive
       /\ \A j \in 1..Len(bullets') :
            /\ bullets'[j].isActive
            /\ bullets'[j].currentPierceCount <= bullets'[j].maxPierceCount]_vars

\* a frame has taken a bullet from within its limit to beyond it, in a
\* second hit of the same bullet
C19_Witness ==
    /\ hist.op = "frame"
    /\ \E j \in 1..Len(hist.post.bullets) :
         LET b == hist.post.bullets[j]
         IN /\ b.currentPierceCount > b.maxPierceCount
            /\ ~b.isActive
            /\ \E i \in WithUid(hist.pre.bullets, b.uid) :
                 /\ hist.pre.bullets[i].isActive
                 /\ hist.pre.bullets[i].currentPierceCount <= b.maxPierceCount
                 /\ hist.pre.bullets[i].currentPierceCount > 0

\* the monsters a bullet overlaps in the bullet-monster loop of a pass: the
\* active monsters, where the two earlier loops of the pass left them
Overlapped(b, ms) == {k \in 1..Len(ms) : ms[k].isActive /\ circlesCollide(b, ms[k])}

RECURSIVE SumOver(_, _)
SumOver(f, S) ==
    IF S = {} THEN 0 ELSE LET x == CHOOSE x \in S : TRUE IN f[x] + SumOver(f, S \ {x})

\* C20: in a collision pass of the single-threaded game every bullet that is
\* active at the start and overlaps k monsters ends with its pierce count
\* raised by exactly k, inactive if the count is then beyond the limit (the
\* hits are counted to the last monster, with no early exit), and the score
\* is raised by 50 for every such hit of a player bullet; a bullet that is
\* inactive at the start is left alone
C20_EveryOverlapCounts ==
    hist.op = "collided" =>
       LET pre == hist.pre.bullets
           hits == [i \in 1..Len(pre) |->
                      IF pre[i].isActive THEN Cardinality(Overlapped(pre[i], monsters)) ELSE 0]
       IN /\ Len(bullets) = Len(pre)
          /\ \A i \in 1..Len(pre) :
               /\ bullets[i].currentPierceCount = pre[i].currentPierceCount + hits[i]
               /\ bullets[i].currentPierceCount > bullets[i].maxPierceCount => ~bullets[i].isActive
               /\ (hits[i] = 0 /\ pre[i].isPlayerBullet) => bullets[i] = pre[i]
          /\ player.score = hist.pre.player.score
                + ScorePerHit * SumOver(hits, {i \in 1..Len(pre) : pre[i].isPlayerBullet})

\* the spec's example: a player bullet with maxPierceCount 2 has hit three
\* monsters in one pass and ends with count 3, inactive, the score 150 higher
C20_Witness ==
    /\ hist.op = "collided"
    /\ Len(bullets) = 1
    /\ hist.pre.bullets[1].isPlayerBullet
    /\ hist.pre.bullets[1].isActive
    /\ hist.pre.bullets[1].currentPierceCount = 0
    /\ bullets[1].maxPierceCount = 2
    /\ bullets[1].currentPierceCount = 3
    /\ ~bullets[1].isActive
    /\ player.score = hist.pre.player.score + 150

----------------------------------------------------------------------------
(* Properties of resolveCollision *)

Resolved == hist.op \in {"utility", "worker"}

\* the square of the distance between the centres of two circles
CentresSq(pair) == DistSq(pair[1].x, pair[1].y, pair[2].x, pair[2].y)

RadiusSum(pair) == pair[1].radius + pair[2].radius

Apart(pair) == CentresSq(pair) >= RadiusSum(pair) * RadiusSum(pair)

SameCentre(pair) == pair[1].x = pair[2].x /\ pair[1].y = pair[2].y

\* how far a call has moved circle i, as a vector
Moved(i) == <<monsters[i].x - hist.pre[i].x, monsters[i].y - hist.pre[i].y>>

\* C21: after a resolveCollision call on two overlapping circles with
\* distinct centres the centres are radiusA + radiusB apart, and a call on
\* two circles at least that far apart changes neither
C21_ResolvedToTouching ==
    Resolved =>
       /\ (~Apart(hist.pre) /\ ~SameCentre(hist.pre)) =>
             CentresSq(monsters) = RadiusSum(hist.pre) * RadiusSum(hist.pre)
       /\ Apart(hist.pre) => monsters = hist.pre

\* a call has been made on two overlapping circles with distinct centres
C21_Witness == Resolved /\ ~Apart(hist.pre) /\ ~SameCentre(hist.pre) /\ monsters # hist.pre

\* two monsters of radius 15 and equal mass with centres 20 apart
TwentyApart(pair) ==
    /\ pair[1].radius = 15 * Unit
    /\ pair[2].radius = 15 * Unit
    /\ MassOr1(pair[1]) = MassOr1(pair[2])
    /\ CentresSq(pair) = (20 * Unit) * (20 * Unit)

\* C22: a resolveCollision call on two monsters of radius 15 and equal
\* mass whose centres are 20 apart moves each of them 5, in opposite
\* directions along the line through the centres
C22_EachMovesFive ==
    (Resolved /\ TwentyApart(hist.pre)) =>
       LET d == <<hist.pre[2].x - hist.pre[1].x, hist.pre[2].y - hist.pre[1].y>>
       IN /\ 4 * Moved(2)[1] = d[1]
          /\ 4 * Moved(2)[2] = d[2]
          /\ Moved(1)[1] = -Moved(2)[1]
          /\ Moved(1)[2] = -Moved(2)[2]

\* a call has been made on such a pair
C22_Witness == Resolved /\ TwentyApart(hist.pre) /\ monsters # hist.pre

\* C23: when resolveCollision separates two overlapping circles with
\* distinct centres, massA times the displacement of circle A is massB
\* times the displacement of circle B, in the opposite direction; with
\* massA = 3 * massB circle B moves three times as far as circle A
C23_DisplacementsInverseToMass ==
    (Resolved /\ ~Apart(hist.pre) /\ ~SameCentre(hist.pre)) =>
       /\ MassOr1(hist.pre[1]) * Moved(1)[1] = -(MassOr1(hist.pre[2]) * Moved(2)[1])
       /\ MassOr1(hist.pre[1]) * Moved(1)[2] = -(MassOr1(hist.pre[2]) * Moved(2)[2])
       /\ Moved(1) # <<0, 0>>
       /\ hist.pre[1].mass = 3 * hist.pre[2].mass =>
             /\ Moved(2)[1] = -3 * Moved(1)[1]
             /\ Moved(2)[2] = -3 * Moved(1)[2]

\* the grid worker has separated a pair with massA = 3 * massB that lay
\* on a slanted line
C23_Witness ==
    /\ hist.op = "worker"
    /\ ~Apart(hist.pre) /\ ~SameCentre(hist.pre)
    /\ hist.pre[1].mass = 3 * hist.pre[2].mass
    /\ Moved(1)[1] # 0 /\ Moved(1)[2] # 0

\* C24: the grid worker's resolveCollision leaves two circles with the
\* same centre and positive radii with numeric coordinates and with
\* different centres
C24_SameCentreNudgedApart ==
    (hist.op = "worker" /\ SameCentre(hist.pre)) =>
       /\ \A i \in 1..2 : ~IsNaN(monsters[i].x) /\ ~IsNaN(monsters[i].y)
       /\ ~SameCentre(monsters)

\* such a call has been made
C24_Witness ==
    /\ hist.op = "worker"
    /\ SameCentre(hist.pre)
    /\ hist.pre[1].radius > 0 /\ hist.pre[2].radius > 0
    /\ monsters[1] # hist.pre[1] /\ monsters[2] # hist.pre[2]

\* C25: resolveCollision of the collision utilities leaves two circles
\* with the same centre with numeric coordinates
C25_SameCentreStaysNumeric ==
    (hist.op = "utility" /\ SameCentre(hist.pre)) =>
       \A i \in 1..2 : ~IsNaN(monsters[i].x) /\ ~IsNaN(monsters[i].y)

\* such a call has been made
C25_Witness == hist.op = "utility" /\ SameCentre(hist.pre) /\ ~Apart(hist.pre)

----------------------------------------------------------------------------
(* Properties of the score, of bullets going inactive, of the player's health *)

\* the (player bullet, monster) pairs of a request that overlap where the
\* worker's reply puts the monsters
ScoringPairs(data, results) ==
    {pr \in (1..Len(data.bullets)) \X (1..Len(data.monsters)) :
        /\ data.bullets[pr[1]].isPlayerBullet
        /\ pr[2] <= Len(results.monsters)
        /\ circlesCollide(data.bullets[pr[1]],
                          [x |-> results.monsters[pr[2]].x, y |-> results.monsters[pr[2]].y,
                           radius |-> data.monsters[pr[2]].radius])}

\* the worker answers a processCollisions request
IsRequestHandled ==
    WorkerTurn /\ Head(inbox).type = "processCollisions" /\ Len(outbox') = Len(outbox) + 1

\* C26: the player's score is a natural number that no step lowers; a step
\* changes it only by merging a result, which adds the result's score
\* delta once; and the delta of a reply is 50 times the number of
\* overlapping (player bullet, monster) pairs of the request it answers
C26_ScoreOnlyFromMergedDeltas ==
    [][/\ player.score \in Nat /\ player'.score \in Nat
       /\ player'.score >= player.score
       /\ player'.score # player.score => IsResultsDelivery
       /\ IsResultsDelivery =>
             player'.score = player.score + deserializeResults(Head(outbox).buffer).score
       /\ IsRequestHandled =>
             LET results == deserializeResults(outbox'[Len(outbox')].buffer)
             IN results.score
                  = ScorePerHit * Cardinality(ScoringPairs(deserializeGameData(Head(inbox).buffer),
                                                           results))]_vars

\* a result that counted more than one pair has been merged
C26_Witness ==
    /\ hist.op = "merge"
    /\ hist.merge.results.score > ScorePerHit
    /\ player.score >= hist.merge.results.score

\* C27: a bullet whose isActive flag is false never has it true again:
\* no step sets the flag of a bullet of the list from false to true, a
\* bullet that a frame's updates left inactive is not an active bullet of
\* the list after the frame, a bullet that has left the list does not come
\* back, and merging a result activates no bullet
C27_InactiveIsTerminal ==
    [][/\ \A i \in 1..Len(bullets) : \A j \in WithUid(bullets', bullets[i].uid) :
            ~bullets[i].isActive => ~bullets'[j].isActive
       /\ \A j \in 1..Len(bullets') :
            /\ WithUid(bullets, bullets'[j].uid) # {} \/ bullets'[j].uid >= hist.nextUid
            /\ bullets'[j].uid \in hist'.spent => ~bullets'[j].isActive
       /\ IsResultsDelivery =>
            /\ Uids(bullets') = Uids(bullets)
            /\ \A k \in 1..Len(bullets) : bullets'[k].isActive => bullets[k].isActive]_vars

\* a result is merged that has an update computed from a bullet which has
\* gone inactive and left the list since the snapshot
C27_Witness ==
    /\ hist.op = "merge"
    /\ hist.merge.lag >= 1
    /\ hist.merge.pruned >= 1
    /\ \E i \in 1..Len(hist.merge.results.bullets) :
         /\ hist.merge.results.bullets[i].isActive
         /\ hist.merge.sources[i] # 0
         /\ WithUid(bullets, hist.merge.sources[i]) = {}

\* a bullet is beyond the bound Bullet.update tests
OutOfBounds(b) ==
    \/ b.x < -b.radius - LargeBoundary \/ b.x > LargeBoundary + b.radius
    \/ b.y < -b.radius - LargeBoundary \/ b.y > LargeBoundary + b.radius

Spent(b) == b.currentPierceCount > b.maxPierceCount

\* every bullet a frame of the single-threaded game has handled is inactive
\* after the frame's collision pass exactly if Cause holds of it (every
\* bullet is active when the frame begins)
DeactivatedExactlyIf(Cause(_, _)) ==
    \A j \in 1..Len(hist'.post.bullets) :
       ~hist'.post.bullets[j].isActive <=> Cause(hist'.post.bullets[j], hist'.post.player)

BoundsOrPierce(b, p) == OutOfBounds(b) \/ Spent(b)

BoundsPierceOrPlayer(b, p) ==
    OutOfBounds(b) \/ Spent(b) \/ (~b.isPlayerBullet /\ p.isActive /\ circlesCollide(b, p))

\* C28: a bullet's isActive flag changes to false only in a frame in which
\* the bullet is out of bounds or its currentPierceCount exceeds its
\* maxPierceCount, and in every such frame
C28_InactiveOnlyByBoundsOrPierce ==
    [][(\A i \in 1..Len(bullets) : bullets[i].isActive) /\ DeactivatedExactlyIf(BoundsOrPierce)]_vars

\* C28 as amended: in the single-threaded game the flag changes to false
\* only in a frame in which the bullet is out of bounds, or its
\* currentPierceCount exceeds its maxPierceCount, or it is a monster's bullet
\* overlapping the player, and in every such frame
C28_InactiveByBoundsPierceOrPlayer ==
    [][(\A i \in 1..Len(bullets) : bullets[i].isActive)
         /\ DeactivatedExactlyIf(BoundsPierceOrPlayer)]_vars

\* a frame has deactivated a monster's bullet that overlapped the player
\* and was neither out of bounds nor beyond its pierce limit
C28_Witness ==
    /\ hist.op = "frame"
    /\ \E j \in 1..Len(hist.post.bullets) :
         /\ ~hist.post.bullets[j].isActive
         /\ ~BoundsOrPierce(hist.post.bullets[j], hist.post.player)

\* C29: in both games the player's health is never changed and the player
\* is never set inactive, so isGameOver is never true
C29_PlayerInvincible ==
    /\ player.health = PlayerHealth
    /\ player.isActive
    /\ ~gs.isGameOver

\* a frame of the single-threaded game in which a monster's bullet has hit
\* the player
C29_Witness ==
    /\ IsSolo
    /\ hist.op = "frame"
    /\ \E j \in 1..Len(hist.post.bullets) :
         /\ ~hist.post.bullets[j].isPlayerBullet
         /\ ~hist.post.bullets[j].isActive
         /\ circlesCollide(hist.post.bullets[j], player)

----------------------------------------------------------------------------
(* Properties of the grid worker's bullet updates *)

\* the monsters of a reply that a bullet of the request overlaps
HitsOf(b, ms) == {k \in 1..Len(ms) : circlesCollideP000(b, ms[k])}

\* C30: every bullet update of a reply carries the pierce count the bullet
\* has after all the hits of the frame on it, and is inactive if that
\* count is beyond the bullet's maxPierceCount
C30_UpdatesCarryFinalState ==
    hist.op = "worker" =>
       \A i \in 1..Len(hist.results.bullets) :
          LET u == hist.results.bullets[i]
              b == hist.data.bullets[u.id[2] + 1]
              final == PierceOr0(b.currentPierceCount)
                         + Cardinality(HitsOf(b, hist.results.monsters))
          IN /\ u.currentPierceCount = final
             /\ final > b.maxPierceCount => ~u.isActive

\* the worker has answered a request with a bullet of maxPierceCount 2 and
\* count 0 that overlaps three monsters
C30_Witness ==
    /\ hist.op = "worker"
    /\ \E i \in 1..Len(hist.results.bullets) :
         LET b == hist.data.bullets[hist.results.bullets[i].id[2] + 1]
         IN /\ b.maxPierceCount = 2
            /\ b.currentPierceCount = 0
            /\ Cardinality(HitsOf(b, hist.results.monsters)) = 3

\* the hits a reply may register when only the bullets that pass Counts(_)
\* count: <<bullet, monster>> index pairs that overlap
HitPairs(data, ms, Counts(_)) ==
    {pr \in (1..Len(data.bullets)) \X (1..Len(ms)) :
        /\ Counts(data.bullets[pr[1]])
        /\ circlesCollideP000(data.bullets[pr[1]], ms[pr[2]])}

SentActive(b) == b.isActive

\* C31: the worker registers hits (score, flash, pierce count) only for the
\* bullets that the request carries as active
C31_OnlyActiveBulletsHit ==
    hist.op = "worker" =>
       LET hits == HitPairs(hist.data, hist.results.monsters, SentActive)
       IN /\ hist.results.score
               = ScorePerHit * Cardinality({pr \in hits : hist.data.bullets[pr[1]].isPlayerBullet})
          /\ \A k \in 1..Len(hist.results.monsters) :
                hist.results.monsters[k].flash => \E pr \in hits : pr[2] = k
          /\ \A i \in 1..Len(hist.results.bullets) :
                LET u == hist.results.bullets[i]
                    b == hist.data.bullets[u.id[2] + 1]
                IN ~b.isActive => u.currentPierceCount = b.currentPierceCount

\* the worker has answered a request whose player bullet, sent as inactive,
\* overlaps a monster
C31_Witness ==
    /\ hist.op = "worker"
    /\ \E i \in 1..Len(hist.data.bullets) :
         /\ ~hist.data.bullets[i].isActive
         /\ hist.data.bullets[i].isPlayerBullet
         /\ HitsOf(hist.data.bullets[i], hist.results.monsters) # {}

AnyBullet(b) == TRUE

\* the places in a reply's bullet updates that are about bullet b
UpdatesOf(b, updates) == {i \in 1..Len(updates) : updates[i].id = b.id}

\* C32: in a reply of the worker every monster bullet that overlaps the
\* player is inactive in the last update about it, a player bullet that
\* overlaps the player is inactive only if its pierce count is spent, the
\* score delta is 50 for each overlap of a player bullet and a monster, and
\* the player is where the monster pass alone puts it
C32_OnlyMonsterBulletsStopOnPlayer ==
    hist.op = "worker" =>
       /\ \A i \in 1..Len(hist.data.bullets) :
             LET b == hist.data.bullets[i]
                 ups == UpdatesOf(b, hist.results.bullets)
             IN circlesCollideP000(b, hist.data.player) =>
                  IF b.isPlayerBullet
                  THEN \A j \in ups :
                         \/ hist.results.bullets[j].isActive = b.isActive
                         \/ hist.results.bullets[j].currentPierceCount > b.maxPierceCount
                  ELSE /\ ups # {}
                       /\ \A j \in ups : (\A k \in ups : k <= j) => ~hist.results.bullets[j].isActive
       /\ hist.results.score
            = ScorePerHit * Cardinality({pr \in HitPairs(hist.data, hist.results.monsters, AnyBullet) :
                                           hist.data.bullets[pr[1]].isPlayerBullet})
       /\ hist.results.player
            = processCollisionsP000([hist.data EXCEPT !.bullets = <<>>], hist.rnd).player

\* the worker has answered a request with an active monster bullet on the
\* player
C32_Witness ==
    /\ hist.op = "worker"
    /\ \E i \in 1..Len(hist.data.bullets) :
         /\ hist.data.bullets[i].isActive
         /\ ~hist.data.bullets[i].isPlayerBullet
         /\ circlesCollideP000(hist.data.bullets[i], hist.data.player)
         /\ \E j \in UpdatesOf(hist.data.bullets[i], hist.results.bullets) :
               ~hist.results.bullets[j].isActive

----------------------------------------------------------------------------
(* Pruning *)

\* C33: in both games a tick ends with a bullet list that holds exactly the
\* bullets that were active before the tick's closing filter, in their
\* order, and no step makes the monster list shorter
C33_PruneBulletsKeepMonsters ==
    [][/\ Len(monsters') >= Len(monsters)
       /\ ticks' # ticks =>
            /\ \A i \in 1..Len(bullets') : bullets'[i].isActive
            /\ IF "post" \in DOMAIN hist'
               THEN bullets' = SelectSeq(hist'.post.bullets, StillActive)
               ELSE Uids(bullets') = hist'.live]_vars

\* a frame of the single-threaded game has ended: its collisions left a
\* bullet inactive, and the list that remains holds a bullet and the
\* monsters are still there
C33_Witness ==
    /\ IsSolo
    /\ hist.op = "frame"
    /\ \E j \in 1..Len(hist.post.bullets) : ~hist.post.bullets[j].isActive
    /\ Len(bullets) > 0
    /\ Len(monsters) > 0

----------------------------------------------------------------------------
(* The grid of the monster pass *)

\* the pairs i < j of a monster list
MonsterPairs(ms) == {pr \in (1..Len(ms)) \X (1..Len(ms)) : pr[1] < pr[2]}

\* the cells of the grid that hold both monsters of the pair
SharedCells(grid, pr) ==
    {c \in 1..Len(grid) : {pr[1], pr[2]} \subseteq Range(grid[c].indices)}

\* C34: monsters of a radius up to the cell size that overlap when the
\* grid is built are entered under a common cell, and the pass tests them
C34_GridCoversOverlappingPairs ==
    hist.op = "worker" =>
       \A pr \in MonsterPairs(hist.results.built) :
          LET m1 == hist.results.built[pr[1]]
              m2 == hist.results.built[pr[2]]
          IN (/\ m1.radius <= GridSize
              /\ m2.radius <= GridSize
              /\ circlesCollideP000(m1, m2))
             => /\ SharedCells(hist.results.grid, pr) # {}
                /\ pr \in Range(hist.results.tests)

\* the worker has tested an overlapping pair at negative coordinates whose
\* centres lie in different cells
C34_Witness ==
    /\ hist.op = "worker"
    /\ \E pr \in MonsterPairs(hist.results.built) :
         LET m1 == hist.results.built[pr[1]]
             m2 == hist.results.built[pr[2]]
         IN /\ circlesCollideP000(m1, m2)
            /\ m1.x < 0
            /\ m1.y < 0
            /\ <<CellOf(m1.x), CellOf(m1.y)>> # <<CellOf(m2.x), CellOf(m2.y)>>
            /\ pr \in Range(hist.results.tests)

\* C35: the monster pass of one request tests no pair of monsters twice
C35_EachPairTestedOnce ==
    hist.op = "worker" =>
       \A a, b \in 1..Len(hist.results.tests) :
          hist.results.tests[a] = hist.results.tests[b] => a = b

\* the worker has tested a pair of monsters that share several cells
C35_Witness ==
    /\ hist.op = "worker"
    /\ \E a \in 1..Len(hist.results.tests) :
         Cardinality(SharedCells(hist.results.grid, hist.results.tests[a])) > 1

----------------------------------------------------------------------------
(* The worker from one request to the next *)

\* the circles of the snapshot in a request buffer
CirclesOf(buffer) ==
    With(deserializeGameDataP000(buffer), LAMBDA data :
      <<data.player>> \o data.monsters \o data.bullets)

\* no two circles of the snapshot have one centre
DistinctCentres(buffer) ==
    With(CirclesOf(buffer), LAMBDA cs :
      \A a, b \in 1..Len(cs) : (cs[a].x = cs[b].x /\ cs[a].y = cs[b].y) => a = b)

----------------------------------------------------------------------------
(* Upgrades *)

\* C37: the bullet level stays in 1..5 and upgradePoints is never negative;
\* the upgrade key raises the level by one and takes one point when there
\* is a point and the level is below 5, and changes neither otherwise; any
\* other step leaves the level, and only a tick that finds the score at or
\* above the threshold adds a point, a single one
C37_UpgradesWithinBounds ==
    [][/\ player'.bulletLevel \in 1..MaxBulletLevel
       /\ gs'.upgradePoints >= 0
       /\ IF hist'.op = "key"
          THEN IF gs.upgradePoints > 0 /\ player.bulletLevel < MaxBulletLevel
               THEN /\ player'.bulletLevel = player.bulletLevel + 1
                    /\ gs'.upgradePoints = gs.upgradePoints - 1
               ELSE /\ player'.bulletLevel = player.bulletLevel
                    /\ gs'.upgradePoints = gs.upgradePoints
          ELSE /\ player'.bulletLevel = player.bulletLevel
               /\ gs'.upgradePoints \in {gs.upgradePoints, gs.upgradePoints + 1}
               /\ gs'.upgradePoints # gs.upgradePoints =>
                    /\ ticks' = ticks + 1
                    /\ player.score >= gs.upgradeThreshold]_vars

\* the key has been pressed at the top level with a point in hand
C37_Witness ==
    /\ hist.op = "key"
    /\ player.bulletLevel = MaxBulletLevel
    /\ gs.upgradePoints > 0
    /\ ticks > 0

----------------------------------------------------------------------------
(* The player and the playfield *)

\* the circle of the player lies within the canvas
InsidePlayfield(p) ==
    /\ Le(p.radius, p.x)
    /\ Le(p.x, CanvasW - p.radius)
    /\ Le(p.radius, p.y)
    /\ Le(p.y, CanvasH - p.radius)

\* C38: after every tick of either game and after every merge of a worker
\* result the player's circle lies within the playfield
C38_PlayerInsidePlayfield ==
    hist.op \in {"tick", "frame", "merge"} => InsidePlayfield(player)

\* a merge has put the player, pushed by a monster that it still overlaps,
\* across the border of the playfield
C38_Witness ==
    /\ hist.op = "merge"
    /\ ~InsidePlayfield(player)
    /\ \E i \in 1..Len(monsters) : circlesCollide(player, monsters[i])

----------------------------------------------------------------------------
(* The continuations of the game loop *)

\* C39: the browser never holds more than one continuation of
\* workerGameLoop, timeouts and animation frames taken together
C39_OneContinuationScheduled ==
    Cardinality(gs.pendingTimeouts) + Cardinality(gs.pendingFrames) <= 1

\* the frame-rate limit has just been switched on while the loop's timeout
\* was pending
C39_Witness ==
    /\ hist.op = "key"
    /\ gs.limitFrameRate
    /\ gs.pendingTimeouts # {}
    /\ gs.pendingFrames # {}

----------------------------------------------------------------------------
(* The worker and the single-threaded collision pass on one frame *)

\* the frame the claim is about: every bullet active, no two monsters
\* overlap, no monster overlaps the player
QuietFrame(data) ==
    /\ \A i \in 1..Len(data.bullets) : data.bullets[i].isActive
    /\ \A pr \in MonsterPairs(data.monsters) :
          ~circlesCollideP000(data.monsters[pr[1]], data.monsters[pr[2]])
    /\ \A k \in 1..Len(data.monsters) : ~circlesCollideP000(data.player, data.monsters[k])

\* the pierce count the worker's reply leaves bullet b with: that of the
\* last update about it, or its own if there is none
CountReturned(b, updates) ==
    IF UpdatesOf(b, updates) = {} THEN b.currentPierceCount
    ELSE updates[CHOOSE j \in UpdatesOf(b, updates) :
                   \A k \in UpdatesOf(b, updates) : k <= j].currentPierceCount

\* the score delta of the reply is what handleCollisions adds to the score
\* on the positions of the snapshot
SameScore ==
    hist.results.score
      = handleCollisions([player |-> player, monsters |-> monsters,
                          bullets |-> bullets]).player.score - player.score

\* C40: on a frame with every bullet active and no overlap among monsters
\* and player, the worker's score delta is what handleCollisions adds to
\* the score, and the worker's reply and handleCollisions leave every
\* bullet with the same pierce count
C40_WorkerMatchesSingleThreaded ==
    (hist.op = "worker" /\ QuietFrame(hist.data)) =>
       /\ SameScore
       /\ \A i \in 1..Len(bullets) :
             CountReturned(hist.data.bullets[i], hist.results.bullets)
               = handleCollisions([player |-> player, monsters |-> monsters,
                                   bullets |-> bullets]).bullets[i].currentPierceCount

\* the worker has answered such a frame, in which a player bullet overlaps
\* two monsters or more, with the score delta of the single-threaded pass
C40_Witness ==
    /\ hist.op = "worker"
    /\ QuietFrame(hist.data)
    /\ SameScore
    /\ \E i \in 1..Len(hist.data.bullets) :
         /\ hist.data.bullets[i].isPlayerBullet
         /\ Cardinality(HitsOf(hist.data.bullets[i], hist.results.monsters)) >= 2

====
